---- MODULE Spec2Model ----
(***************************************************************************)
(* A model of the vidsub media pipeline: the orchestrator                  *)
(* VideoService.process_video_stream driven by the /process server-push    *)
(* route, the /regenerate route, the record store (models/video.py), the   *)
(* render stage _add_subtitles with its subtitle file, the translation     *)
(* stage _process_subtitles and the language normalizer.                   *)
(*                                                                         *)
(* Strings that the code inspects character by character (language codes,  *)
(* segment texts) are sequences of one-character strings.  External        *)
(* collaborators (ffmpeg, the speech service, the translation services,    *)
(* the record store, the file system) answer nondeterministically with     *)
(* every outcome the code distinguishes.                                   *)
(***************************************************************************)
EXTENDS Integers, Sequences, FiniteSets, Bags, TLC

VARIABLES
    pc,                 \* position of the request / of the generator between two pulls
    mode,               \* "none" | "process" | "regenerate": the route serving the stream
    store,              \* the record store: record id -> video record
    files,              \* temporary and output files present on disk
    events,             \* the server-push events delivered to the caller, in order
    calls,              \* external calls made by the current run, in order
    client,             \* VideoService.client is set (groq client initialised)
    req,                \* the request: video id, target language, font size, segments
    video_id,           \* process_video_stream's video_id
    audio_path,         \* process_video_stream's audio_path: <<>> is None
    source_lang,        \* result of detect_language
    segments,           \* transcription['segments']
    detected_language,  \* transcription['detected_language']
    translated_subs,    \* the segments handed to the render stage
    existing_segments,  \* the segments of the record read at the start: <<>> before the read
    srt_path,           \* regenerate's srt_path: <<>> is None
    exc,                \* the exception the except block of the generator caught: <<>> is none
    raised,             \* what the generator raised to its caller: <<>> is nothing
    rendered,           \* the segment lists _add_subtitles / _burn_subtitles were called with
    ts,                 \* the translation stage run on its own: loop state of _process_subtitles
    rs,                 \* the model resolver run on its own: the cache and the calling threads
    nl,                 \* the language normalizer run on its own: input and results
    tr,                 \* the transcription stage run on its own: inputs and result
    ly,                 \* the layout engine run on its own: dimensions, override and result
    rn,                 \* the render stage run on its own: inputs, renderer calls and outcome
    sr,                 \* the subtitle file writer run on its own: the segment list and the files written
    tx,                 \* one translation applied on its own: the text, the services' answers and the outcome
    rc,                 \* the record unit: the store over runs, updates and regenerations
    hp                  \* the replace unit: _process_subtitles over segment objects

vars == <<pc, mode, store, files, events, calls, client, req, video_id, audio_path,
          source_lang, segments, detected_language, translated_subs, existing_segments,
          srt_path, exc,
          raised, rendered, ts, rs, nl, tr, ly, rn, sr, tx, rc, hp>>

\* the variables of the runs of single stages, and those of the pipeline
unitVars == <<ts, rs, nl, tr, ly, rn, sr, tx, rc, hp>>

pipelineVars ==
    <<pc, mode, store, files, events, calls, client, req, video_id, audio_path,
      source_lang, segments, detected_language, translated_subs, existing_segments,
      srt_path, exc, raised, rendered>>

\* a stage that is not run on its own in the specification at hand
Off == [phase |-> "off"]

-----------------------------------------------------------------------------
(* Characters and strings *)

UpperCs == <<"A","B","C","D","E","F","G","H","I","J","K","L","M",
             "N","O","P","Q","R","S","T","U","V","W","X","Y","Z">>
LowerCs == <<"a","b","c","d","e","f","g","h","i","j","k","l","m",
             "n","o","p","q","r","s","t","u","v","w","x","y","z">>

LowerChar(c) ==
    IF \E i \in 1..Len(UpperCs) : UpperCs[i] = c
    THEN LowerCs[CHOOSE i \in 1..Len(UpperCs) : UpperCs[i] = c]
    ELSE c

\* str.lower()
Lower(s) == [i \in 1..Len(s) |-> LowerChar(s[i])]

IsSpace(c) == c \in {" ", "\t", "\n"}

RECURSIVE LStrip(_)
LStrip(s) == IF s # <<>> /\ IsSpace(Head(s)) THEN LStrip(Tail(s)) ELSE s

RECURSIVE RStrip(_)
RStrip(s) ==
    IF s # <<>> /\ IsSpace(s[Len(s)]) THEN RStrip(SubSeq(s, 1, Len(s) - 1)) ELSE s

\* str.strip()
Strip(s) == RStrip(LStrip(s))

\* s.split(sep)[0]: the part before the first separator, all of s without one
RECURSIVE SplitFirst(_, _)
SplitFirst(s, sep) ==
    IF s = <<>> \/ Head(s) = sep THEN <<>>
    ELSE <<Head(s)>> \o SplitFirst(Tail(s), sep)

Contains(s, c) == \E i \in 1..Len(s) : s[i] = c

-----------------------------------------------------------------------------
(* utils/language_utils.py *)

LANGUAGE_NAME_MAP ==
    { << <<"e","n","g","l","i","s","h">>,         <<"e","n">> >>,
      << <<"h","e","b","r","e","w">>,             <<"h","e">> >>,
      << <<"a","r","a","b","i","c">>,             <<"a","r">> >>,
      << <<"c","h","i","n","e","s","e">>,         <<"z","h">> >>,
      << <<"j","a","p","a","n","e","s","e">>,     <<"j","a">> >>,
      << <<"k","o","r","e","a","n">>,             <<"k","o">> >>,
      << <<"f","r","e","n","c","h">>,             <<"f","r">> >>,
      << <<"s","p","a","n","i","s","h">>,         <<"e","s">> >>,
      << <<"g","e","r","m","a","n">>,             <<"d","e">> >>,
      << <<"r","u","s","s","i","a","n">>,         <<"r","u">> >>,
      << <<"h","i","n","d","i">>,                 <<"h","i">> >> }

LanguageCodes == { p[2] : p \in LANGUAGE_NAME_MAP }

\* the lookup with 'en' as its default: LANGUAGE_NAME_MAP.get(lang, 'en')
NameMapGetDefaultEn(lang) ==
    IF \E p \in LANGUAGE_NAME_MAP : p[1] = lang
    THEN (CHOOSE p \in LANGUAGE_NAME_MAP : p[1] = lang)[2]
    ELSE <<"e","n">>

\* LANGUAGE_NAME_MAP.get(lang, lang)
NameMapGet(lang) ==
    IF \E p \in LANGUAGE_NAME_MAP : p[1] = lang
    THEN (CHOOSE p \in LANGUAGE_NAME_MAP : p[1] = lang)[2]
    ELSE lang

\* the normalizer without lower(): lang = lang.strip()
normalize_lang_code_no_lower(lang) ==
    LET l == Strip(lang) IN
    IF Len(l) = 2 /\ l \in LanguageCodes THEN l
    ELSE NameMapGet(IF Contains(l, "-") THEN SplitFirst(l, "-") ELSE l)

normalize_lang_code(lang) ==
    LET l == Lower(Strip(lang)) IN
    IF Len(l) = 2 /\ l \in LanguageCodes THEN l
    ELSE NameMapGet(IF Contains(l, "-") THEN SplitFirst(l, "-") ELSE l)

EN == <<"e","n">>
ES == <<"e","s">>
AR == <<"a","r">>

-----------------------------------------------------------------------------
(* Option values: <<>> is None, <<x>> is x *)

None == <<>>
Some(x) == <<x>>
IsSome(o) == o # <<>>
Get(o) == o[1]

RECURSIVE SeqOfLen(_, _)
\* all sequences over S of length n
SeqOfLen(S, n) ==
    IF n = 0 THEN { <<>> }
    ELSE { Append(q, x) : q \in SeqOfLen(S, n - 1), x \in S }

SeqUpTo(S, n) == UNION { SeqOfLen(S, k) : k \in 0..n }

-----------------------------------------------------------------------------
(* core/video_service.py: the translation of one text *)

\* what the external collaborators answer during one translate_text call
AllTranslateEnvs ==
    [ model : {"direct", "pivot", "none"},   \* what get_translation_model resolves
      gen1  : {"ok", "fail"},                \* the model invocation of a direct strategy
      key   : {"ok", "missing"},             \* GROQ_API_KEY present, client constructible
      groq  : {"ok", "fail"} ]               \* the remote chat completion

\* the answers that are never asked for are fixed to "ok"
TranslateEnvs ==
    { e \in AllTranslateEnvs :
        /\ (e.model # "direct" => e.gen1 = "ok")
        /\ (e.model = "direct" /\ e.gen1 = "ok" => e.key = "ok" /\ e.groq = "ok") }

\* the text a local model generates for an input text
ModelOutput(tag, text) == <<tag>> \o text

\* response.choices[0].message.content of the remote service, before strip()
RemoteContent(text) == <<" ", "[remote]">> \o text \o <<"\n">>

\* ensure_initialized: TRUE when it raises
EnsureInitializedRaises(cl, env) == ~cl /\ env.key = "missing"

\* _translate_with_groq_fallback: ret is None when the call raises
translate_with_groq_fallback(text, cl, env) ==
    IF EnsureInitializedRaises(cl, env)
    THEN [ret |-> None, client |-> cl, calls |-> <<>>]
    ELSE [ret |-> Some(IF env.groq = "ok" THEN Strip(RemoteContent(text)) ELSE text),
          client |-> TRUE,
          calls |-> <<"groq">>]

WithCalls(r, cs) == [r EXCEPT !.calls = cs \o r.calls]

\* translate_text(text, source_lang, target_lang) with self.client = cl. For a
\* pivot strategy model_info['tokenizer'] is a list, so the log line that opens
\* the try block (model_info['tokenizer'].name_or_path) raises AttributeError
\* before either model is invoked, and the except branch goes to the remote
\* service
translate_text(text, source, target, cl, env) ==
    LET s == normalize_lang_code(source)
        t == normalize_lang_code(target)
    IN  IF s = t THEN [ret |-> Some(text), client |-> cl, calls |-> <<>>]
        ELSE IF s = AR /\ t = EN THEN translate_with_groq_fallback(text, cl, env)
        ELSE IF env.model = "none"
             THEN WithCalls(translate_with_groq_fallback(text, cl, env), <<"resolve">>)
        ELSE IF env.model = "pivot"
             THEN WithCalls(translate_with_groq_fallback(text, cl, env), <<"resolve">>)
        ELSE IF env.gen1 = "fail"
             THEN WithCalls(translate_with_groq_fallback(text, cl, env),
                            <<"resolve", "model">>)
             ELSE [ret |-> Some(ModelOutput("[direct]", text)),
                   client |-> cl, calls |-> <<"resolve", "model">>]

-----------------------------------------------------------------------------
(* core/video_service.py: _process_subtitles *)

\* the loop body with an except branch that blanks the text of the segment
ProcessedSegmentBlanked(sub, r) ==
    IF IsSome(r.ret)
    THEN [start |-> sub.start, end |-> sub.end, text |-> Get(r.ret)]
    ELSE [start |-> sub.start, end |-> sub.end, text |-> <<>>]

\* the segment the loop body appends for sub, given translate_text's result
ProcessedSegment(sub, r) ==
    IF IsSome(r.ret)
    THEN [start |-> sub.start, end |-> sub.end, text |-> Get(r.ret)]
    ELSE sub

\* the loop body with 'processed.insert(0, ...)' for 'processed.append(...)':
\* as many elements, in reverse order
ProcessSubtitlesStepPrepending(st, sub, source, target, env) ==
    LET r == translate_text(sub.text, source, target, st.client, env) IN
    [ idx |-> st.idx + 1,
      processed |-> <<ProcessedSegment(sub, r)>> \o st.processed,
      translation_errors |-> st.translation_errors + (IF IsSome(r.ret) THEN 0 ELSE 1),
      client |-> r.client,
      invoked |-> Append(st.invoked, sub.text),
      raisedAt |-> IF IsSome(r.ret) THEN st.raisedAt ELSE st.raisedAt \cup {st.idx + 1} ]

\* one iteration of the loop over the subtitles: st is the loop state, idx the
\* number of segments the loop has taken, invoked the texts translate_text was
\* called with, raisedAt the positions at which it raised
ProcessSubtitlesStep(st, sub, source, target, env) ==
    LET r == translate_text(sub.text, source, target, st.client, env) IN
    [ idx |-> st.idx + 1,
      processed |-> Append(st.processed, ProcessedSegment(sub, r)),
      translation_errors |-> st.translation_errors + (IF IsSome(r.ret) THEN 0 ELSE 1),
      client |-> r.client,
      invoked |-> Append(st.invoked, sub.text),
      raisedAt |-> IF IsSome(r.ret) THEN st.raisedAt ELSE st.raisedAt \cup {st.idx + 1} ]

ProcessSubtitlesStart(cl) ==
    [ idx |-> 0, processed |-> <<>>, translation_errors |-> 0, client |-> cl,
      invoked |-> <<>>, raisedAt |-> {} ]

RECURSIVE ProcessSubtitlesFrom(_, _, _, _, _)
ProcessSubtitlesFrom(st, subs, source, target, envs) ==
    IF subs = <<>> THEN st
    ELSE ProcessSubtitlesFrom(
             ProcessSubtitlesStep(st, Head(subs), source, target, Head(envs)),
             Tail(subs), source, target, Tail(envs))

\* _process_subtitles(subtitles, source_lang, target_lang): envs[i] is what the
\* collaborators answer while segment i is translated
process_subtitles(subs, source, target, cl, envs) ==
    ProcessSubtitlesFrom(ProcessSubtitlesStart(cl), subs, source, target, envs)

-----------------------------------------------------------------------------
(* models/video.py: the record store *)

\* record ids of the uploaded videos; TargetVideo is the one the requests name
VideoIds == {"v1", "v2"}
TargetVideo == "v1"

\* a well-formed record id that names no record, and the id ObjectId() makes up
StrayId == "vx"
FreshId == "new"

\* create_video: the record of an upload; name_id is the part of the stored
\* file name, if any, that is itself a well-formed record id
NewVideo(id, name_id) ==
    [ status |-> "uploaded", progress |-> 0, segments |-> <<>>,
      original_path |-> [file |-> id, name_id |-> name_id] ]

\* dict merge: message.update(data), {'$set': update_data}
Merge(a, b) ==
    [k \in DOMAIN a \cup DOMAIN b |-> IF k \in DOMAIN b THEN b[k] ELSE a[k]]

\* update_one({'_id': id}, {'$set': data}): no record matched, nothing written
UpdateOne(st, id, data) ==
    IF id \in DOMAIN st THEN [st EXCEPT ![id] = Merge(st[id], data)] ELSE st

\* Video.update_status(video_id, status, error, progress), the write succeeding;
\* error "" is falsy and progress is an option
update_status(st, id, status, error, progress) ==
    UpdateOne(st, id,
        Merge(Merge([status |-> status],
                    IF error # "" THEN [error |-> error] ELSE <<>>),
              IF IsSome(progress) THEN [progress |-> Get(progress)] ELSE <<>>))

\* Video.update_output_path(video_id, output_path, segments), the write succeeding
update_output_path(st, id, output_path, segs) ==
    UpdateOne(st, id, [output_path |-> output_path, status |-> "completed",
                       progress |-> 100, segments |-> segs])

\* Video.delete_video(video_id), the deletion succeeding: the record is
\* removed from the store
delete_video(st, id) == [i \in DOMAIN st \ {id} |-> st[i]]

\* the files delete_video removes for a record: the output file when the
\* record names one (the original file is not among the files followed here)
DeletedFiles(video) ==
    IF "output_path" \in DOMAIN video THEN {video.output_path} ELSE {}

\* Video.get_video(video_id): None when no record matches or the store fails
get_video(st, id, dbOk) ==
    IF dbOk /\ id \in DOMAIN st THEN Some(st[id]) ELSE None

\* VideoService.validate_and_get_video_id(video_path): a part of the file name
\* that is a well-formed id wins over the lookup by path
validate_and_get_video_id(st, path, dbOk) ==
    IF path.name_id # "none" THEN path.name_id
    ELSE IF dbOk /\ \E id \in DOMAIN st : st[id].original_path = path
    THEN CHOOSE id \in DOMAIN st : st[id].original_path = path
    ELSE FreshId

-----------------------------------------------------------------------------
(* Segments *)

Seg(a, b, t) == [start |-> a, end |-> b, text |-> t]

Hola == <<"H","o","l","a">>
Mundo == <<"M","u","n","d","o">>

\* '\n'.join(s['text'] for s in segs)
RECURSIVE JoinTexts(_)
JoinTexts(segs) ==
    IF segs = <<>> THEN <<>>
    ELSE IF Len(segs) = 1 THEN segs[1].text
    ELSE segs[1].text \o <<"\n">> \o JoinTexts(Tail(segs))

HasKeys(seg) == {"start", "end", "text"} \subseteq DOMAIN seg

\* Python's None as the value of a text field: a one-element sequence that no
\* string is, the elements of a string being single characters
PyNone == <<"None">>

IsStr(v) == v # PyNone

-----------------------------------------------------------------------------
(* core/video_service.py: _send_progress *)

send_progress(step, progress, data) ==
    Merge([ step |-> step, progress |-> progress,
            status |-> IF progress = -1 THEN "failed"
                       ELSE IF progress = 100 THEN "completed" ELSE "processing" ],
          data)

NoData == <<>>

\* the checkpoint of the start of detection, mistyped below the one before it
DetectStartProgressLowered == 35 - 10

\* the progress checkpoints of process_video_stream, in the order of the code
InitProgress == 0
ExistingSegmentsProgress == 80
ExtractStartProgress == 10
ExtractDoneProgress == 30
DetectStartProgress == 35
DetectDoneProgress == 40
TranscribeStartProgress == 45
TranscribeDoneProgress == 60
TranslateStartProgress == 65
TranslateDoneProgress == 80
GenerateSrtProgress == 85
AddSubtitlesProgress == 90
FinalizeProgress == 100
ErrorProgress == -1

-----------------------------------------------------------------------------
(* core/video_service.py: detect_language, _transcribe_with_groq *)

English == <<"e","n","g","l","i","s","h">>
Spanish == <<"s","p","a","n","i","s","h">>

\* the language field of a speech-service response: absent, or one of these
ResponseLanguages == { None, Some(English), Some(Spanish) }

\* detect_language: any failure of the call is answered with 'en'
detect_language(ok, language) ==
    IF ~ok THEN EN
    ELSE normalize_lang_code(IF IsSome(language) THEN Get(language) ELSE EN)

\* the segment lists of the speech-service responses: good segments (one with
\* the leading blank the service emits) and malformed ones (no duration, blank
\* text, no text)
RawSegmentLists ==
    { <<>>,
      << Seg(0, 2, <<" ">> \o Hola) >>,
      << Seg(0, 2, <<" ">> \o Hola), Seg(2, 4, Mundo) >>,
      << Seg(0, 2, <<" ">> \o Hola), Seg(4, 4, Mundo) >>,
      << [start |-> 4, end |-> 5], Seg(0, 2, <<" ">> \o Hola) >>,
      << Seg(4, 5, <<" ">>), [start |-> 4, end |-> 5] >> }

TranscribeEnvs ==
    [ audio          : {"ok", "unreadable"},
      translations   : {"ok", "fail"},
      transcriptions : {"ok", "fail"},
      language       : ResponseLanguages,
      segments       : RawSegmentLists ]

\* the segment validation loop of _transcribe_with_groq; text.strip() on a
\* text that is no string raises inside the loop's try, and the segment is
\* skipped
RECURSIVE ProcessedSegments(_)
ProcessedSegments(raw) ==
    IF raw = <<>> THEN <<>>
    ELSE LET r == Head(raw) IN
         IF HasKeys(r) /\ r.end > r.start /\ IsStr(r.text) /\ Strip(r.text) # <<>>
         THEN <<Seg(r.start, r.end, Strip(r.text))>> \o ProcessedSegments(Tail(raw))
         ELSE ProcessedSegments(Tail(raw))

\* the speech calls without the fallback of lines 349-356
TranscribeCallsNoFallback(source, target, env) ==
    IF env.audio = "unreadable" THEN <<>>
    ELSE IF target = EN /\ source # EN THEN <<"translations">>
         ELSE <<"transcriptions">>

\* the speech calls _transcribe_with_groq makes, in order
TranscribeCalls(source, target, env) ==
    IF env.audio = "unreadable" THEN <<>>
    ELSE IF target = EN /\ source # EN
         THEN IF env.translations = "ok" THEN <<"translations">>
              ELSE <<"translations", "transcriptions">>
         ELSE <<"transcriptions">>

\* TRUE when the speech call (with its fallback) yields no response
TranscribeFails(source, target, env) ==
    \/ env.audio = "unreadable"
    \/ /\ target = EN /\ source # EN
       /\ env.translations = "fail" /\ env.transcriptions = "fail"
    \/ /\ ~(target = EN /\ source # EN)
       /\ env.transcriptions = "fail"

\* sample_text[:100] of the log line raises when the first segment's text is
\* no string; the raise is outside the loop's try
SampleTextRaises(raw) ==
    /\ raw # <<>>
    /\ "text" \in DOMAIN raw[1]
    /\ ~IsStr(raw[1].text)

\* the handler of line 409 answering with the normalized source language
transcribe_with_groq_normalizing(source, target, env) ==
    IF TranscribeFails(source, target, env) \/ SampleTextRaises(env.segments)
    THEN [ segments |-> <<>>, detected_language |-> normalize_lang_code(source),
           sample_text |-> <<>> ]
    ELSE [ segments |-> ProcessedSegments(env.segments),
           detected_language |->
               normalize_lang_code(IF IsSome(env.language) THEN Get(env.language)
                                   ELSE source),
           sample_text |->
               IF env.segments = <<>> THEN <<>>
               ELSE IF "text" \in DOMAIN env.segments[1] THEN env.segments[1].text
               ELSE <<>> ]

transcribe_with_groq(source, target, env) ==
    IF TranscribeFails(source, target, env) \/ SampleTextRaises(env.segments)
    THEN [ segments |-> <<>>, detected_language |-> source, sample_text |-> <<>> ]
    ELSE [ segments |-> ProcessedSegments(env.segments),
           detected_language |->
               normalize_lang_code(IF IsSome(env.language) THEN Get(env.language)
                                   ELSE source),
           sample_text |->
               IF env.segments = <<>> THEN <<>>
               ELSE IF "text" \in DOMAIN env.segments[1] THEN env.segments[1].text
               ELSE <<>> ]

-----------------------------------------------------------------------------
(* core/video_service.py: _generate_srt, _add_subtitles, _burn_subtitles *)

\* _generate_srt: the file is created by open() and then written entry by
\* entry, so the entries before the first segment without start, end or text
\* are written before the KeyError of that segment; a failing write raises
\* at the write or, the text being buffered, when the with block closes the
\* file, where it replaces the KeyError; with nothing written nothing fails
generate_srt(subs, io) ==
    LET written == { i \in 1..Len(subs) : \A j \in 1..i : HasKeys(subs[j]) } IN
    IF io = "open_fail"
    THEN [ok |-> FALSE, created |-> FALSE, error |-> "cannot open srt"]
    ELSE IF io = "write_fail" /\ written # {}
    THEN [ok |-> FALSE, created |-> TRUE, error |-> "cannot write srt"]
    ELSE IF \E i \in 1..Len(subs) : ~HasKeys(subs[i])
    THEN [ok |-> FALSE, created |-> TRUE, error |-> "KeyError"]
    ELSE [ok |-> TRUE, created |-> TRUE, error |-> ""]

AllRenderEnvs ==
    [ srt      : {"ok", "open_fail", "write_fail"},   \* writing the subtitle file
      probe    : {"ok", "ffmpeg_error", "no_video"},  \* ffmpeg.probe and the stream pick
      font     : {"ok", "missing"},                   \* get_font_path
      primary  : {"ok", "ffmpeg_error"},              \* the styled render
      fallback : {"ok", "fail"},                      \* the minimal-style render
      rm       : {"ok", "fail"},                      \* os.remove of the subtitle file
      out      : BOOLEAN ]                            \* the renderer left an output file

\* the answers that are never asked for are fixed to "ok" (TRUE)
RenderEnvs ==
    { e \in AllRenderEnvs :
        /\ (e.srt # "ok" => e.probe = "ok" /\ e.rm = "ok")
        /\ (e.srt # "ok" \/ e.probe # "ok" => e.font = "ok")
        /\ (e.srt # "ok" \/ e.probe # "ok" \/ e.font # "ok" => e.primary = "ok")
        /\ (~(e.srt = "ok" /\ (e.probe = "ffmpeg_error"
                                 \/ (e.probe = "ok" /\ e.font = "ok"
                                        /\ e.primary = "ffmpeg_error")))
                => e.fallback = "ok")
        /\ (e.srt # "ok" \/ e.probe = "no_video"
                \/ (e.probe = "ok" /\ e.font = "missing") => e.out) }

\* the try block of _add_subtitles: ret is the output path or None, error the
\* message of the exception raised ("" is StopIteration's); a render that ran,
\* failing or not, is the only writer of output_path and nothing removes that
\* file, so it exists afterwards when the renderer left one (env.out)
AddSubtitlesTry(env) ==
    IF env.probe = "no_video"
    THEN [ret |-> None, error |-> "", calls |-> <<"probe">>]
    ELSE IF env.probe = "ok" /\ env.font = "missing"
    THEN [ret |-> None, error |-> "Font file not found", calls |-> <<"probe">>]
    ELSE IF env.probe = "ok" /\ env.primary = "ok"
    THEN [ret |-> Some("output"), error |-> "", calls |-> <<"probe", "render">>]
    ELSE LET cs == IF env.probe = "ok" THEN <<"probe", "render">> ELSE <<"probe">> IN
         IF env.fallback = "ok"
         THEN [ret |-> Some("output"), error |-> "",
               calls |-> Append(cs, "fallback_render")]
         ELSE [ret |-> None, error |-> "fallback render failed",
               calls |-> Append(cs, "fallback_render")]

\* _add_subtitles with the os.remove of the finally block unguarded: the
\* error of a failing removal replaces the result of the try block
add_subtitles_remove_unguarded(subs, env) ==
    IF subs = <<>>
    THEN [ret |-> None, error |-> "No subtitles to add", calls |-> <<>>,
          srt_made |-> FALSE, srt_left |-> FALSE, out_file |-> FALSE]
    ELSE LET g == generate_srt(subs, env.srt) IN
         IF ~g.ok
         THEN [ret |-> None, error |-> g.error, calls |-> <<"generate_srt">>,
               srt_made |-> g.created, srt_left |-> g.created, out_file |-> FALSE]
         ELSE LET r == AddSubtitlesTry(env) IN
              [ret |-> IF env.rm = "fail" THEN None ELSE r.ret,
               error |-> IF env.rm = "fail" THEN "cannot remove srt" ELSE r.error,
               calls |-> <<"generate_srt">> \o r.calls,
               srt_made |-> TRUE,
               srt_left |-> (env.rm = "fail"),
               out_file |-> (Len(r.calls) > 1 /\ env.out)]

\* _add_subtitles(video_path, subtitles, ...): srt_left tells whether the
\* subtitle file is still on disk when the call exits, out_file whether the
\* output file exists
add_subtitles(subs, env) ==
    IF subs = <<>>
    THEN [ret |-> None, error |-> "No subtitles to add", calls |-> <<>>,
          srt_made |-> FALSE, srt_left |-> FALSE, out_file |-> FALSE]
    ELSE LET g == generate_srt(subs, env.srt) IN
         IF ~g.ok
         THEN [ret |-> None, error |-> g.error, calls |-> <<"generate_srt">>,
               srt_made |-> g.created, srt_left |-> g.created, out_file |-> FALSE]
         ELSE LET r == AddSubtitlesTry(env) IN
              [ret |-> r.ret, error |-> r.error,
               calls |-> <<"generate_srt">> \o r.calls,
               srt_made |-> TRUE,
               srt_left |-> (env.rm = "fail"),
               out_file |-> (Len(r.calls) > 1 /\ env.out)]

\* _burn_subtitles(video_path, srt_path, ...): one styled render, no fallback;
\* out_file tells whether a file is at output_path when the call exits: the
\* render, failing or not, may have left one and nothing removes it
burn_subtitles(env) ==
    IF env.probe = "no_video"
    THEN [ret |-> None, error |-> "", out_file |-> FALSE]
    ELSE IF env.probe = "ffmpeg_error"
    THEN [ret |-> None, error |-> "ffprobe error", out_file |-> FALSE]
    ELSE IF env.font = "missing"
    THEN [ret |-> None, error |-> "Font file not found", out_file |-> FALSE]
    ELSE IF env.primary # "ok"
    THEN [ret |-> None, error |-> "ffmpeg error", out_file |-> env.out]
    ELSE [ret |-> Some("output"), error |-> "", out_file |-> env.out]

-----------------------------------------------------------------------------
(* The requests and their inputs *)

\* target_language as the caller may spell it
TargetInputs ==
    { EN, <<"E","N">>, <<"e","n","-","U","S">>, ES }

\* the id-like part an uploaded file name may carry: none, the id of another
\* video's record, or a well-formed id of no record
NameIds == {"none", "v2", StrayId}

Hello == <<"H","e","l","l","o">>

\* a JSON value in a time field that is no number (a string, null): the
\* value on which isinstance(v, (int, float)) is false
NotANumber == 99

IsNumber(v) == v # NotANumber

\* bodies of /update_subtitles requests
EditedInputs ==
    { <<Seg(0, 2, Hello)>>, <<Seg(0, 2, Hello), Seg(2, 2, Mundo)>>,
      <<Seg(0, NotANumber, Hello)>>, <<Seg(0, 2, PyNone)>>,
      <<Seg(NotANumber, NotANumber, Hello)>> }

\* segments arguments of /regenerate requests (any JSON the caller sends)
RegenerateInputs ==
    { <<Seg(0, 2, Hello)>>, <<Seg(0, 2, Hello), [start |-> 2, end |-> 4]>>,
      <<Seg(0, 2, Hello), Seg(2, 2, <<" ">>)>> }

\* routes/video.py: validate_subtitle_segments on a list of objects
validate_subtitle_segments(segs) ==
    \A i \in 1..Len(segs) :
        /\ HasKeys(segs[i])
        /\ IsNumber(segs[i].start) /\ segs[i].start >= 0
        /\ IsNumber(segs[i].end) /\ segs[i].end > segs[i].start
        /\ IsStr(segs[i].text) /\ Strip(segs[i].text) # <<>>

\* the files of a stream: its names are fresh (uuid4), one of each kind per stream
File(kind) == kind

Idle == pc = "idle"
Ended == pc \in {"done", "closed", "aborted"}

NoReq == [video_id |-> "none"]

\* the path of a request that found no record
NoPath == [file |-> "none", name_id |-> "none"]

Init ==
    /\ pc = "idle"
    /\ mode = "none"
    /\ \E n \in NameIds :
           store = [id \in VideoIds |->
                       NewVideo(id, IF id = TargetVideo THEN n ELSE "none")]
    /\ files = {}
    /\ events = <<>>
    /\ calls = <<>>
    /\ client = FALSE
    /\ req = NoReq
    /\ video_id = None
    /\ audio_path = None
    /\ source_lang = None
    /\ segments = <<>>
    /\ detected_language = None
    /\ translated_subs = <<>>
    /\ existing_segments = <<>>
    /\ srt_path = None
    /\ exc = None
    /\ raised = None
    /\ rendered = <<>>
    /\ hp = Off
    /\ rc = Off
    /\ tx = Off
    /\ sr = Off
    /\ rn = Off
    /\ ly = Off
    /\ ts = Off
    /\ rs = Off
    /\ nl = Off
    /\ tr = Off

\* the locals of a stream, as a new request finds them
ResetRun ==
    /\ events' = <<>>
    /\ calls' = <<>>
    /\ video_id' = None
    /\ audio_path' = None
    /\ source_lang' = None
    /\ segments' = <<>>
    /\ detected_language' = None
    /\ translated_subs' = <<>>
    /\ existing_segments' = <<>>
    /\ srt_path' = None
    /\ exc' = None
    /\ raised' = None
    /\ rendered' = <<>>

\* routes/video.py: update_subtitles, a request of its own that is served at
\* any time, also between two pulls of a stream and after it
UpdateSubtitles ==
    /\ \E segs \in EditedInputs :
           IF validate_subtitle_segments(segs)
           THEN store' = UpdateOne(store, TargetVideo,
                             [segments |-> segs, status |-> "processing", progress |-> 0])
           ELSE store' = store
    /\ UNCHANGED <<pc, mode, files, events, calls, client, req, video_id, audio_path,
                   source_lang, segments, detected_language, translated_subs,
                   existing_segments, srt_path, exc, raised, rendered, unitVars>>

\* models/video.py: delete_video called for the video of the requests, at any
\* time: its output file is removed, then its record is deleted unless
\* delete_one raises
DeleteVideo ==
    /\ TargetVideo \in DOMAIN store
    /\ \E dbOk \in BOOLEAN :
           store' = IF dbOk THEN delete_video(store, TargetVideo) ELSE store
    /\ files' = files \ DeletedFiles(store[TargetVideo])
    /\ UNCHANGED <<pc, mode, events, calls, client, req, video_id, audio_path,
                   source_lang, segments, detected_language, translated_subs,
                   existing_segments, srt_path, exc, raised, rendered, unitVars>>

\* routes/video.py: process_video (GET) up to the streaming response; 404
\* without a record
RequestProcess ==
    /\ Idle
    /\ TargetVideo \in DOMAIN store
    /\ store[TargetVideo].status # "failed"
    /\ \E tl \in TargetInputs :
           req' = [ video_id |-> TargetVideo, target_lang |-> tl,
                    video_path |-> store[TargetVideo].original_path ]
    /\ pc' = "p_start"
    /\ mode' = "process"
    /\ ResetRun
    /\ UNCHANGED <<store, files, client, unitVars>>

\* routes/video.py: regenerate_video up to the streaming response; when
\* get_video answers None (the store raised) the response is the one event
\* 'Video not found' and no generator is started
RequestRegenerate ==
    /\ Idle
    /\ \E segs \in RegenerateInputs, dbOk \in BOOLEAN :
           /\ req' = [ video_id |-> TargetVideo, target_lang |-> EN, segments |-> segs,
                       video_path |-> IF TargetVideo \in DOMAIN store
                                      THEN store[TargetVideo].original_path
                                      ELSE NoPath ]
           /\ IF IsSome(get_video(store, TargetVideo, dbOk))
              THEN /\ pc' = "r_start"
                   /\ events' = <<>>
              ELSE /\ pc' = "done"
                   /\ events' = <<[error |-> "Video not found"]>>
    /\ mode' = "regenerate"
    /\ calls' = <<>>
    /\ video_id' = None
    /\ audio_path' = None
    /\ source_lang' = None
    /\ segments' = <<>>
    /\ detected_language' = None
    /\ translated_subs' = <<>>
    /\ existing_segments' = <<>>
    /\ srt_path' = None
    /\ exc' = None
    /\ raised' = None
    /\ rendered' = <<>>
    /\ UNCHANGED <<store, files, client, unitVars>>

-----------------------------------------------------------------------------
(* core/video_service.py: process_video_stream, pulled by the generate() of *)
(* routes/video.py: process_video.  One action is one pull of the stream:   *)
(* the code between two yields, with the handlers it runs into.             *)

\* the finally block: the audio file is removed when audio_path names it
Finally(fl, ap, rmOk) ==
    IF IsSome(ap) /\ Get(ap) \in fl /\ rmOk THEN fl \ {Get(ap)} ELSE fl

\* the message of the exception the generator raises on 'raise': a
\* StopIteration (message "") leaves a generator as a RuntimeError
ReraiseMessage(e) == IF e = "" THEN "generator raised StopIteration" ELSE e

\* a yield that hands the event over again on the next pull
YieldReplaying(ev, next, st, fl, cs, cl) ==
    /\ events' = events \o <<ev, ev>>
    /\ pc' = next
    /\ store' = st
    /\ files' = fl
    /\ calls' = cs
    /\ client' = cl
    /\ exc' = exc
    /\ raised' = raised

\* a yield: the event is delivered and the generator rests at position next
Yield(ev, next, st, fl, cs, cl) ==
    /\ events' = Append(events, ev)
    /\ pc' = next
    /\ store' = st
    /\ files' = fl
    /\ calls' = cs
    /\ client' = cl
    /\ exc' = exc
    /\ raised' = raised

\* the generator exits with exception e: its finally block, then the except
\* block of generate(), whose update_status may raise in turn
Propagate(e, st, fl, ap, cs, cl) ==
    \E rmOk \in BOOLEAN, dbOk \in BOOLEAN :
        /\ files' = Finally(fl, ap, rmOk)
        /\ raised' = Some(e)
        /\ client' = cl
        /\ calls' = Append(cs, "route_update_status")
        /\ IF dbOk
           THEN /\ store' = update_status(st, req.video_id, "failed", e, None)
                /\ events' = Append(events, [error |-> e])
                /\ pc' = "y_route_error"
           ELSE /\ store' = st
                /\ events' = events
                /\ pc' = "aborted"

\* the except block of process_video_stream for exception e, raised with the
\* store, files, calls and client as the failing stage left them
Fail(e, st, fl, ap, cs, cl) ==
    \E dbOk \in BOOLEAN :
        IF dbOk
        THEN /\ events' = Append(events, send_progress("Error", ErrorProgress, [error |-> e]))
             /\ pc' = "y_error"
             /\ store' = update_status(st, Get(video_id), "failed", e, Some(-1))
             /\ files' = fl
             /\ calls' = Append(cs, "update_status")
             /\ client' = cl
             /\ exc' = Some(e)
             /\ raised' = raised
        ELSE /\ exc' = Some(e)
             /\ Propagate("record store error", st, fl, ap,
                          Append(cs, "update_status"), cl)

\* start .. yield INIT 0
PullInit ==
    /\ pc = "p_start"
    /\ \E dbOk \in BOOLEAN :
           video_id' = Some(validate_and_get_video_id(store, req.video_path, dbOk))
    /\ Yield(send_progress("Initializing", InitProgress, NoData), "y0", store, files,
             Append(calls, "validate_and_get_video_id"), client)
    /\ UNCHANGED <<mode, req, audio_path, source_lang, segments, detected_language,
                   translated_subs, existing_segments, srt_path, rendered, unitVars>>

\* the test with an off-by-one: a single stored segment does not count
use_existing_segments_more_than_one(existing) == Len(existing) > 1

\* use_existing_segments = len(existing_segments) > 0
use_existing_segments(existing) == Len(existing) > 0

\* ensure_initialized, the read of the record .. yield TRANSLATE 80 or EXTRACT_AUDIO 10
PullReadRecord ==
    /\ pc = "y0"
    /\ \E keyOk \in BOOLEAN, dbOk \in BOOLEAN :
           IF ~client /\ ~keyOk
           THEN /\ Fail("GROQ_API_KEY not found", store, files, audio_path,
                        Append(calls, "ensure_initialized"), client)
                /\ UNCHANGED existing_segments
           ELSE LET video == get_video(store, Get(video_id), dbOk)
                    existing == IF IsSome(video) THEN Get(video).segments ELSE <<>>
                    cs == calls \o <<"ensure_initialized", "get_video">>
                IN  /\ existing_segments' = existing
                    /\ IF use_existing_segments(existing)
                       THEN Yield(send_progress("Translating", ExistingSegmentsProgress,
                                      [translation |-> JoinTexts(existing)]),
                                  "y80", store, files, cs, TRUE)
                       ELSE Yield(send_progress("Extracting audio", ExtractStartProgress, NoData),
                                  "y10", store, files, cs, TRUE)
    /\ UNCHANGED <<mode, req, video_id, audio_path, source_lang, segments,
                   detected_language, translated_subs, srt_path, rendered, unitVars>>

\* _extract_audio .. yield EXTRACT_AUDIO 30; a failing ffmpeg may leave a
\* partial file at the path it was given
PullExtractAudio ==
    /\ pc = "y10"
    /\ \E out \in {"ok", "fail", "fail_partial"} :
           LET cs == Append(calls, "extract_audio") IN
           IF out = "ok"
           THEN /\ audio_path' = Some(File("audio"))
                /\ Yield(send_progress("Extracting audio", ExtractDoneProgress, NoData),
                         "y30", store,
                         files \cup {File("audio")}, cs, client)
           ELSE /\ audio_path' = audio_path
                /\ Fail("FFmpeg error", store,
                        IF out = "fail_partial" THEN files \cup {File("audio")} ELSE files,
                        audio_path, cs, client)
    /\ UNCHANGED <<mode, req, video_id, source_lang, segments, detected_language,
                   translated_subs, existing_segments, srt_path, rendered, unitVars>>

\* .. yield DETECT_LANGUAGE 35
PullDetectStart ==
    /\ pc = "y30"
    /\ Yield(send_progress("Detecting language", DetectStartProgress, NoData), "y35", store, files,
             calls, client)
    /\ UNCHANGED <<mode, req, video_id, audio_path, source_lang, segments,
                   detected_language, translated_subs, existing_segments, srt_path,
                   rendered, unitVars>>

\* detect_language .. yield DETECT_LANGUAGE 40
PullDetectLanguage ==
    /\ pc = "y35"
    /\ \E ok \in BOOLEAN, language \in ResponseLanguages :
           LET lang == detect_language(ok, language) IN
           /\ source_lang' = Some(lang)
           /\ Yield(send_progress("Detecting language", DetectDoneProgress,
                                  [detected_language |-> lang]),
                    "y40", store, files, Append(calls, "detect_language"), client)
    /\ UNCHANGED <<mode, req, video_id, audio_path, segments, detected_language,
                   translated_subs, existing_segments, srt_path, rendered, unitVars>>

\* .. yield TRANSCRIBE 45
PullTranscribeStart ==
    /\ pc = "y40"
    /\ Yield(send_progress("Transcribing", TranscribeStartProgress, NoData), "y45", store, files, calls, client)
    /\ UNCHANGED <<mode, req, video_id, audio_path, source_lang, segments,
                   detected_language, translated_subs, existing_segments, srt_path,
                   rendered, unitVars>>

\* _transcribe_with_groq, the check for zero segments .. yield TRANSCRIBE 60
PullTranscribe ==
    /\ pc = "y45"
    /\ \E env \in TranscribeEnvs :
           LET t == transcribe_with_groq(Get(source_lang), req.target_lang, env)
               cs == Append(calls, "transcribe")
           IN  /\ segments' = t.segments
               /\ detected_language' = Some(t.detected_language)
               /\ IF t.segments = <<>>
                  THEN Fail("No valid subtitles generated", store, files, audio_path,
                            cs, client)
                  ELSE Yield(send_progress("Transcribing", TranscribeDoneProgress,
                                 [transcription |-> JoinTexts(t.segments)]),
                             "y60", store, files, cs, client)
    /\ UNCHANGED <<mode, req, video_id, audio_path, source_lang, translated_subs,
                   existing_segments, srt_path, rendered, unitVars>>

\* the comparison of the detected language with the target
\* .. yield TRANSLATE 65, or GENERATE_SRT 85 when no translation is needed
PullTranslateStart ==
    /\ pc = "y60"
    /\ IF Get(detected_language) # req.target_lang
       THEN /\ translated_subs' = translated_subs
            /\ Yield(send_progress("Translating", TranslateStartProgress, NoData), "y65", store, files,
                     calls, client)
       ELSE /\ translated_subs' = segments
            /\ Yield(send_progress("Generating subtitles", GenerateSrtProgress, NoData), "y85", store,
                     files, calls, client)
    /\ UNCHANGED <<mode, req, video_id, audio_path, source_lang, segments,
                   detected_language, existing_segments, srt_path, rendered, unitVars>>

\* _process_subtitles .. yield TRANSLATE 80
PullTranslate ==
    /\ pc = "y65"
    /\ \E envs \in SeqOfLen(TranslateEnvs, Len(segments)) :
           LET r == process_subtitles(segments, Get(detected_language), req.target_lang,
                                      client, envs)
           IN  /\ translated_subs' = r.processed
               /\ Yield(send_progress("Translating", TranslateDoneProgress,
                            [translation |-> JoinTexts(r.processed)]),
                        "y80", store, files, Append(calls, "process_subtitles"), r.client)
    /\ UNCHANGED <<mode, req, video_id, audio_path, source_lang, segments,
                   detected_language, existing_segments, srt_path, rendered, unitVars>>

\* after the 80 event of the stored-segments branch the assignment
\* translated_subs = existing_segments (line 499) .. yield GENERATE_SRT 85
PullGenerateSrt ==
    /\ pc = "y80"
    /\ translated_subs' = IF use_existing_segments(existing_segments)
                          THEN existing_segments ELSE translated_subs
    /\ Yield(send_progress("Generating subtitles", GenerateSrtProgress, NoData), "y85", store, files,
             calls, client)
    /\ UNCHANGED <<mode, req, video_id, audio_path, source_lang, segments,
                   detected_language, existing_segments, srt_path,
                   rendered, unitVars>>

\* .. yield ADD_SUBTITLES 90
PullAddSubtitlesStart ==
    /\ pc = "y85"
    /\ Yield(send_progress("Adding subtitles", AddSubtitlesProgress, NoData), "y90", store, files,
             calls, client)
    /\ UNCHANGED <<mode, req, video_id, audio_path, source_lang, segments,
                   detected_language, translated_subs, existing_segments, srt_path,
                   rendered, unitVars>>

\* _add_subtitles, the check of the output file, update_output_path
\* .. yield FINALIZE 100
PullRender ==
    /\ pc = "y90"
    /\ rendered' = Append(rendered, translated_subs)
    /\ \E env \in RenderEnvs, dbOk \in BOOLEAN :
           LET r == add_subtitles(translated_subs, env)
               fl == files \cup (IF r.srt_left THEN {File("srt")} ELSE {})
                           \cup (IF r.out_file THEN {File("output")} ELSE {})
               cs == calls \o <<"add_subtitles">> \o r.calls
           IN  IF ~IsSome(r.ret)
               THEN Fail(r.error, store, fl, audio_path, cs, client)
               ELSE IF ~r.out_file
               THEN Fail("Output video not generated", store, fl, audio_path, cs, client)
               ELSE IF ~dbOk
               THEN Fail("record store error", store, fl, audio_path,
                         Append(cs, "update_output_path"), client)
               ELSE Yield(send_progress("Finalizing", FinalizeProgress,
                              [ output_path |-> File("output"),
                                transcription |-> JoinTexts(translated_subs),
                                segments |-> translated_subs ]),
                          "y100",
                          update_output_path(store, Get(video_id), File("output"),
                                             translated_subs),
                          fl, Append(cs, "update_output_path"), client)
    /\ UNCHANGED <<mode, req, video_id, audio_path, source_lang, segments,
                   detected_language, translated_subs, existing_segments, srt_path, unitVars>>

\* after FINALIZE 100 the generator returns through its finally block
PullFinish ==
    /\ pc = "y100"
    /\ pc' = "done"
    /\ \E rmOk \in BOOLEAN : files' = Finally(files, audio_path, rmOk)
    /\ UNCHANGED <<mode, store, events, calls, client, req, video_id, audio_path,
                   source_lang, segments, detected_language, translated_subs,
                   existing_segments, srt_path, exc, raised, rendered, unitVars>>

\* after the -1 event: 'raise', the finally block, the except block of generate()
PullReraise ==
    /\ pc = "y_error"
    /\ Propagate(ReraiseMessage(Get(exc)), store, files, audio_path, calls, client)
    /\ UNCHANGED <<exc, mode, req, video_id, audio_path, source_lang, segments,
                   detected_language, translated_subs, existing_segments, srt_path,
                   rendered, unitVars>>

\* after the error event of generate() the stream ends
PullRouteEnd ==
    /\ pc = "y_route_error"
    /\ pc' = "done"
    /\ UNCHANGED <<mode, store, files, events, calls, client, req, video_id, audio_path,
                   source_lang, segments, detected_language, translated_subs,
                   existing_segments, srt_path, exc, raised, rendered, unitVars>>

ProcessYields ==
    {"y0", "y10", "y30", "y35", "y40", "y45", "y60", "y65", "y80", "y85", "y90",
     "y100", "y_error"}

\* the caller closes the stream: GeneratorExit at the yield the generator rests
\* at, which no 'except Exception' catches; the finally block runs
CloseProcess ==
    /\ pc \in ProcessYields \cup {"p_start", "y_route_error"}
    /\ pc' = "closed"
    /\ \E rmOk \in BOOLEAN :
           files' = IF pc \in ProcessYields THEN Finally(files, audio_path, rmOk)
                    ELSE files
    /\ UNCHANGED <<mode, store, events, calls, client, req, video_id, audio_path,
                   source_lang, segments, detected_language, translated_subs,
                   existing_segments, srt_path, exc, raised, rendered, unitVars>>

-----------------------------------------------------------------------------
(* routes/video.py: regenerate_video.generate, one action per pull *)

\* the finally block of generate(): the subtitle file is removed when
\* srt_path names it
RegenerateFinally(fl, sp, rmOk) ==
    IF IsSome(sp) /\ Get(sp) \in fl /\ rmOk THEN fl \ {Get(sp)} ELSE fl

\* the except block of generate(): the error event
RegenerateError(e) == [error |-> e, progress |-> -1]

\* start .. yield 30
RegenInit ==
    /\ pc = "r_start"
    /\ Yield([step |-> "Generating subtitles", progress |-> 30], "r30", store, files,
             calls, client)
    /\ UNCHANGED <<mode, req, video_id, audio_path, source_lang, segments,
                   detected_language, translated_subs, existing_segments, srt_path,
                   rendered, unitVars>>

\* _generate_srt .. yield 60
RegenGenerateSrt ==
    /\ pc = "r30"
    /\ \E io \in {"ok", "open_fail", "write_fail"} :
           LET g == generate_srt(req.segments, io)
               fl == IF g.created THEN files \cup {File("srt")} ELSE files
               cs == Append(calls, "generate_srt")
           IN  IF g.ok
               THEN /\ srt_path' = Some(File("srt"))
                    /\ Yield([step |-> "Processing video", progress |-> 60], "r60",
                             store, fl, cs, client)
               ELSE /\ srt_path' = srt_path
                    /\ Yield(RegenerateError(g.error), "r_error", store, fl, cs, client)
    /\ UNCHANGED <<mode, req, video_id, audio_path, source_lang, segments,
                   detected_language, translated_subs, existing_segments, rendered, unitVars>>

\* _burn_subtitles .. yield 90
RegenBurn ==
    /\ pc = "r60"
    /\ rendered' = Append(rendered, req.segments)
    /\ \E env \in RenderEnvs :
           LET r == burn_subtitles(env)
               cs == Append(calls, "burn_subtitles")
               fl == IF r.out_file THEN files \cup {File("output")} ELSE files
           IN  IF IsSome(r.ret)
               THEN Yield([step |-> "Finalizing", progress |-> 90], "r90", store, fl,
                          cs, client)
               ELSE Yield(RegenerateError(r.error), "r_error", store, fl, cs, client)
    /\ UNCHANGED <<mode, req, video_id, audio_path, source_lang, segments,
                   detected_language, translated_subs, existing_segments, srt_path, unitVars>>

\* update_output_path .. yield 100
RegenUpdate ==
    /\ pc = "r90"
    /\ \E dbOk \in BOOLEAN :
           LET cs == Append(calls, "update_output_path") IN
           IF dbOk
           THEN Yield([ step |-> "Completed", progress |-> 100,
                        output_path |-> File("output"), segments |-> req.segments ],
                      "r100",
                      update_output_path(store, req.video_id, File("output"),
                                         req.segments),
                      files, cs, client)
           ELSE Yield(RegenerateError("record store error"), "r_error", store, files,
                      cs, client)
    /\ UNCHANGED <<mode, req, video_id, audio_path, source_lang, segments,
                   detected_language, translated_subs, existing_segments, srt_path,
                   rendered, unitVars>>

RegenerateYields == {"r30", "r60", "r90", "r100", "r_error"}

\* after the last event generate() returns through its finally block
RegenFinish ==
    /\ pc \in {"r100", "r_error"}
    /\ pc' = "done"
    /\ \E rmOk \in BOOLEAN : files' = RegenerateFinally(files, srt_path, rmOk)
    /\ UNCHANGED <<mode, store, events, calls, client, req, video_id, audio_path,
                   source_lang, segments, detected_language, translated_subs,
                   existing_segments, srt_path, exc, raised, rendered, unitVars>>

\* the caller closes the stream: GeneratorExit at the yield, then the finally block
CloseRegenerate ==
    /\ pc \in RegenerateYields \cup {"r_start"}
    /\ pc' = "closed"
    /\ \E rmOk \in BOOLEAN : files' = RegenerateFinally(files, srt_path, rmOk)
    /\ UNCHANGED <<mode, store, events, calls, client, req, video_id, audio_path,
                   source_lang, segments, detected_language, translated_subs,
                   existing_segments, srt_path, exc, raised, rendered, unitVars>>

-----------------------------------------------------------------------------

Next ==
    \/ UpdateSubtitles
    \/ DeleteVideo
    \/ RequestProcess
    \/ RequestRegenerate
    \/ PullInit
    \/ PullReadRecord
    \/ PullExtractAudio
    \/ PullDetectStart
    \/ PullDetectLanguage
    \/ PullTranscribeStart
    \/ PullTranscribe
    \/ PullTranslateStart
    \/ PullTranslate
    \/ PullGenerateSrt
    \/ PullAddSubtitlesStart
    \/ PullRender
    \/ PullFinish
    \/ PullReraise
    \/ PullRouteEnd
    \/ CloseProcess
    \/ RegenInit
    \/ RegenGenerateSrt
    \/ RegenBurn
    \/ RegenUpdate
    \/ RegenFinish
    \/ CloseRegenerate

Spec == Init /\ [][Next]_vars

-----------------------------------------------------------------------------
(* The progress stream and the files of a run, checked under Spec *)

InCalls(c) == \E i \in DOMAIN calls : calls[i] = c

\* the run was consumed to its end: the stream returned or raised
Consumed == pc \in {"done", "aborted"}

IsFinalizeEvent(e) ==
    /\ {"step", "progress", "output_path", "segments"} \subseteq DOMAIN e
    /\ e.step = "Finalizing"
    /\ e.progress = 100

IsErrorEvent(e) ==
    /\ {"step", "progress", "error"} \subseteq DOMAIN e
    /\ e.step = "Error"
    /\ e.progress = -1

IsTerminalEvent(e) == IsFinalizeEvent(e) \/ IsErrorEvent(e)

HasProgress(e) == "progress" \in DOMAIN e

\* the percents of the events of process_video_stream, in the order emitted
Percents ==
    LET pe == SelectSeq(events, HasProgress) IN [i \in DOMAIN pe |-> pe[i].progress]

\* C1: the stream of a process run consumed to its end ends with exactly one
\* terminal event, a 100 'Finalizing' event with output path and segments or a
\* -1 'Error' event with the message, and no event follows it
C1_OneTerminalEventLast ==
    mode = "process" /\ Consumed =>
        /\ events # <<>>
        /\ IsTerminalEvent(events[Len(events)])
        /\ \A i \in 1..(Len(events) - 1) : ~IsTerminalEvent(events[i])

\* C2: once a stage of process_video_stream has raised, the record of the
\* video is 'failed' with the message of the error, a -1 event with that
\* message is in the stream, and the caller that pulls on gets that error
C2_PersistEmitReraise ==
    mode = "process" /\ IsSome(exc) =>
        /\ req.video_id \in DOMAIN store
        /\ store[req.video_id].status = "failed"
        /\ "error" \in DOMAIN store[req.video_id]
        /\ store[req.video_id].error = Get(exc)
        /\ \E i \in DOMAIN events :
               IsErrorEvent(events[i]) /\ events[i].error = Get(exc)
        /\ pc \notin {"y_error", "closed"} => raised = Some(Get(exc))

\* C3: when a process run has ended, by success, failure or the caller
\* closing the stream, its temporary audio file is not on disk
C3_NoAudioFileLeft ==
    mode = "process" /\ Ended => File("audio") \notin files

\* C4: the subtitle file written by _generate_srt is gone when _add_subtitles
\* has exited and when the regeneration has ended, whatever the exit path
C4_NoSrtFileLeft ==
    /\ mode = "process" => File("srt") \notin files
    /\ mode = "regenerate" /\ Ended => File("srt") \notin files

\* C5: the percents of the events of a process run never decrease, except
\* that the last one may be the -1 of the 'Error' event; a successful run
\* shows one of the three checkpoint lists
C5_MonotonicProgress ==
    mode = "process" =>
        /\ \A i \in 1..(Len(Percents) - 1) :
               \/ Percents[i] <= Percents[i + 1]
               \/ Percents[i + 1] = -1 /\ i + 1 = Len(Percents)
        /\ pc = "y100" =>
               Percents \in { <<0, 10, 30, 35, 40, 45, 60, 65, 80, 85, 90, 100>>,
                              <<0, 10, 30, 35, 40, 45, 60, 85, 90, 100>>,
                              <<0, 80, 85, 90, 100>> }

\* the full pipeline, translation included, has emitted its 100 event
C5_Witness ==
    /\ mode = "process"
    /\ pc = "y100"
    /\ InCalls("process_subtitles")
    /\ Len(Percents) = 12
    /\ Percents[12] = 100

\* os.remove of the audio file was called by the finally block and failed
AudioRemovalFailed == IsSome(audio_path) /\ File("audio") \in files

\* os.remove of the subtitle file was called by the finally block of
\* _add_subtitles and failed
SrtRemovalFailed == InCalls("probe") /\ File("srt") \in files

\* C33: a failing removal of the audio file or of the subtitle file changes
\* nothing but the files left: _add_subtitles gives the result it gives when
\* the removal works; a run that emitted its 100 event emitted no -1 event,
\* raised nothing and wrote no failure: the record it wrote is 'completed'
\* (or 'processing' once a subtitle update has come after it) and has no
\* error; and the error the caller of a failed run gets is the error the
\* stream was ending with, the stage's or the record store's
C33_CleanupFailureHarmless ==
    mode = "process" =>
        /\ pc = "y90" =>
               \A env \in RenderEnvs :
                   LET a == add_subtitles(translated_subs, env)
                       b == add_subtitles(translated_subs, [env EXCEPT !.rm = "ok"])
                   IN  /\ a.ret = b.ret
                       /\ a.error = b.error
                       /\ a.calls = b.calls
                       /\ a.out_file = b.out_file
        /\ ( Consumed /\ (AudioRemovalFailed \/ SrtRemovalFailed) ) =>
               /\ (\E i \in DOMAIN events : IsFinalizeEvent(events[i])) =>
                      /\ \A i \in DOMAIN events : ~IsErrorEvent(events[i])
                      /\ raised = None
                      /\ exc = None
                      /\ pc = "done"
                      /\ Get(video_id) \in DOMAIN store =>
                             /\ store[Get(video_id)].status \in {"completed", "processing"}
                             /\ "error" \notin DOMAIN store[Get(video_id)]
               /\ IsSome(raised) =>
                      /\ IsSome(exc)
                      /\ Get(raised) \in {ReraiseMessage(Get(exc)), "record store error"}
                      /\ \A i \in DOMAIN events : ~IsFinalizeEvent(events[i])

\* a run ended with its 100 event and the record 'completed' although the
\* removal of the audio file and that of the subtitle file both failed
C33_Witness ==
    /\ mode = "process"
    /\ pc = "done"
    /\ AudioRemovalFailed
    /\ SrtRemovalFailed
    /\ IsFinalizeEvent(events[Len(events)])
    /\ TargetVideo \in DOMAIN store
    /\ store[TargetVideo].status = "completed"

\* the percent of the event whose yield precedes each external call of
\* process_video_stream
CallCheckpoint ==
    [ c \in {"ensure_initialized", "get_video", "extract_audio", "detect_language",
             "transcribe", "process_subtitles", "add_subtitles", "generate_srt",
             "probe", "render", "fallback_render", "update_output_path"} |->
        CASE c \in {"ensure_initialized", "get_video"} -> InitProgress
          [] c = "extract_audio" -> ExtractStartProgress
          [] c = "detect_language" -> DetectStartProgress
          [] c = "transcribe" -> TranscribeStartProgress
          [] c = "process_subtitles" -> TranslateStartProgress
          [] OTHER -> AddSubtitlesProgress ]

\* C34: an external call of a stage is made only by a pull that came after
\* the event before that stage was delivered: the event is in the stream and
\* either a later event followed it or the pull raised; so a caller that took
\* k events and pulls no more has caused no call of a later stage; and no
\* event is delivered twice
C34_AdvancesOnlyWhenConsumed ==
    mode = "process" =>
        /\ \A c \in DOMAIN CallCheckpoint :
               InCalls(c) =>
                   \E i \in DOMAIN events :
                       /\ HasProgress(events[i])
                       /\ events[i].progress = CallCheckpoint[c]
                       /\ i < Len(events) \/ pc = "aborted"
        /\ \A i \in DOMAIN events, j \in DOMAIN events :
               events[i] = events[j] => i = j

\* the caller took the events 0 and 10 and closed the stream: the record was
\* read and no audio was extracted
C34_Witness ==
    /\ mode = "process"
    /\ pc = "closed"
    /\ Percents = <<0, 10>>
    /\ InCalls("get_video")
    /\ ~InCalls("extract_audio")

\* the 100 event of process_video_stream is in the stream
FinalizeEmitted == \E i \in DOMAIN events : IsFinalizeEvent(events[i])

\* C35: when the 100 event has been emitted the record of the video is
\* 'completed' with progress 100, the output path and the final segments, and
\* the output file exists; a render that left no output file and a failing
\* write of the record both end in the except block with no 100 event
C35_RecordWrittenBeforeFinalEvent ==
    mode = "process" =>
        /\ FinalizeEmitted =>
               /\ req.video_id \in DOMAIN store
               /\ store[req.video_id].status = "completed"
               /\ store[req.video_id].progress = 100
               /\ "output_path" \in DOMAIN store[req.video_id]
               /\ store[req.video_id].output_path = File("output")
               /\ store[req.video_id].segments = translated_subs
               /\ File("output") \in files
               /\ InCalls("update_output_path")
        /\ ( InCalls("add_subtitles") /\ pc # "y90" /\ File("output") \notin files )
               => IsSome(exc) /\ ~FinalizeEmitted
        /\ exc = Some("record store error") => ~FinalizeEmitted

\* C36: the id under which a run reads the prior segments and writes
\* 'completed' or 'failed' is the id of the record whose stored path is the
\* input path of the run, whatever the name of the uploaded file
C36_RunAddressesItsRecord ==
    mode = "process" /\ IsSome(video_id) =>
        /\ Get(video_id) \in DOMAIN store
        /\ store[Get(video_id)].original_path = req.video_path

\* C6: a run whose transcription returned zero segments, consumed to its end,
\* has emitted a -1 event, left the record 'failed', rendered nothing and
\* deleted the temporary audio file
C6_ZeroSegmentsFails ==
    mode = "process" /\ InCalls("transcribe") /\ segments = <<>> /\ Consumed =>
        /\ \E i \in DOMAIN events : IsErrorEvent(events[i])
        /\ req.video_id \in DOMAIN store
        /\ store[req.video_id].status = "failed"
        /\ rendered = <<>>
        /\ ~InCalls("add_subtitles")
        /\ File("audio") \notin files

\* C7: when the detected language and the target, however the caller spelled
\* it, are the same language, _process_subtitles is not invoked and the
\* segments rendered are the transcription's
C7_SameLanguageSkipsTranslation ==
    ( /\ mode = "process"
      /\ IsSome(detected_language)
      /\ normalize_lang_code(Get(detected_language)) = normalize_lang_code(req.target_lang) )
    => /\ ~InCalls("process_subtitles")
       /\ \A i \in DOMAIN rendered : rendered[i] = segments

-----------------------------------------------------------------------------
(* _process_subtitles on its own: the loop of core/video_service.py 426-450, *)
(* one iteration per step, on bounded inputs                                 *)

MaxLen == 5

\* the i-th segment of the sample transcript
SampleSegment(i) == Seg(2 * i - 2, 2 * i, IF i % 2 = 1 THEN Hola ELSE Mundo)

\* the input lists: the transcripts of 0..MaxLen segments, a list with a
\* repeated segment and a list out of time order
TsInputs ==
    { [i \in 1..n |-> SampleSegment(i)] : n \in 0..MaxLen }
        \cup { <<SampleSegment(1), SampleSegment(1)>>,
               <<SampleSegment(2), SampleSegment(1)>> }

\* the language pairs: a local-model pair, the remote-only pair, and one
\* language spelled in two ways
TsLanguagePairs == { <<ES, EN>>, <<AR, EN>>, <<EN, <<"E","N">> >> }

InitTranslate ==
    /\ pc = "idle"
    /\ mode = "none"
    /\ store = [id \in VideoIds |-> NewVideo(id, "none")]
    /\ files = {}
    /\ events = <<>>
    /\ calls = <<>>
    /\ client = FALSE
    /\ req = NoReq
    /\ video_id = None
    /\ audio_path = None
    /\ source_lang = None
    /\ segments = <<>>
    /\ detected_language = None
    /\ translated_subs = <<>>
    /\ existing_segments = <<>>
    /\ srt_path = None
    /\ exc = None
    /\ raised = None
    /\ rendered = <<>>
    /\ hp = Off
    /\ rc = Off
    /\ tx = Off
    /\ sr = Off
    /\ rn = Off
    /\ ly = Off
    /\ rs = Off
    /\ nl = Off
    /\ tr = Off
    /\ \E subs \in TsInputs, lp \in TsLanguagePairs, cl \in BOOLEAN :
           ts = [ phase |-> "loop", subtitles |-> subs, source_lang |-> lp[1],
                  target_lang |-> lp[2], loop |-> ProcessSubtitlesStart(cl),
                  result |-> <<>> ]

\* one iteration of 'for idx, sub in enumerate(subtitles, 1)'
TsIterate ==
    /\ ts.phase = "loop"
    /\ ts.loop.idx < Len(ts.subtitles)
    /\ \E env \in TranslateEnvs :
           ts' = [ts EXCEPT !.loop =
                      ProcessSubtitlesStep(ts.loop, ts.subtitles[ts.loop.idx + 1],
                          ts.source_lang, ts.target_lang, env)]
    /\ UNCHANGED <<pipelineVars, rs, nl, tr, ly, rn, sr, tx, rc, hp>>

\* the loop is exhausted: 'return processed'
TsReturn ==
    /\ ts.phase = "loop"
    /\ ts.loop.idx >= Len(ts.subtitles)
    /\ ts' = [ts EXCEPT !.phase = "returned", !.result = ts.loop.processed]
    /\ UNCHANGED <<pipelineVars, rs, nl, tr, ly, rn, sr, tx, rc, hp>>

NextTranslate == TsIterate \/ TsReturn

SpecTranslate == InitTranslate /\ [][NextTranslate]_vars

-----------------------------------------------------------------------------
(* The translation stage, checked under SpecTranslate *)

\* the texts translate_text can return for a text of the inputs under a
\* language pair, whatever the client and the collaborators answer
TsTexts == { Hola, Mundo }

TsTranslations ==
    [ lp \in TsLanguagePairs, t \in TsTexts |->
        LET rets == { translate_text(t, lp[1], lp[2], cl, env).ret :
                          cl \in BOOLEAN, env \in TranslateEnvs }
        IN  { Get(r) : r \in { x \in rets : IsSome(x) } } ]

\* out is what the loop makes of the input segment sub: its start and end,
\* and either a translation of its text or its text
ProcessedFrom(out, sub) ==
    /\ DOMAIN out = {"start", "end", "text"}
    /\ out.start = sub.start
    /\ out.end = sub.end
    /\ out.text \in TsTranslations[<<ts.source_lang, ts.target_lang>>, sub.text]
                        \cup {sub.text}

\* C9: _process_subtitles calls translate_text exactly once for every input
\* segment, in input order; the list it builds, and returns, is as long as
\* the segments taken and its i-th element is what the loop made of the i-th
\* input segment
C9_OncePerSegmentInOrder ==
    ts.phase # "off" =>
        /\ ts.loop.invoked = [i \in 1..ts.loop.idx |-> ts.subtitles[i].text]
        /\ Len(ts.loop.processed) = ts.loop.idx
        /\ \A i \in 1..Len(ts.loop.processed) :
               ProcessedFrom(ts.loop.processed[i], ts.subtitles[i])
        /\ ts.phase = "returned" =>
               /\ ts.loop.idx = Len(ts.subtitles)
               /\ Len(ts.result) = Len(ts.subtitles)
               /\ \A i \in 1..Len(ts.result) :
                      ProcessedFrom(ts.result[i], ts.subtitles[i])

\* a call on MaxLen segments has returned, some translated and some not
C9_Witness ==
    /\ ts.phase = "returned"
    /\ Len(ts.subtitles) = MaxLen
    /\ ts.loop.raisedAt # {}
    /\ \E i, j \in 1..Len(ts.result) :
           /\ i < j
           /\ ts.result[i].text # ts.subtitles[i].text
           /\ ts.result[j].text # ts.subtitles[j].text
           /\ ts.result[i] # ts.result[j]

\* C10: a segment for which translate_text raised is in the output with its
\* original text, start and end, and the segments after it are still processed
C10_KeepsOriginalAndContinues ==
    ts.phase # "off" =>
        \A i \in ts.loop.raisedAt :
            /\ i <= Len(ts.loop.processed)
            /\ ts.loop.processed[i] = ts.subtitles[i]
            /\ ts.phase = "returned" =>
                   /\ ts.result[i] = ts.subtitles[i]
                   /\ Len(ts.loop.invoked) = Len(ts.subtitles)

\* translate_text raised for a segment and a later segment was translated
C10_Witness ==
    /\ ts.phase = "returned"
    /\ \E i \in ts.loop.raisedAt :
           /\ i < Len(ts.subtitles)
           /\ (i + 1) \notin ts.loop.raisedAt
           /\ ts.result[i + 1].text # ts.subtitles[i + 1].text

-----------------------------------------------------------------------------
(* core/video_service.py: get_translation_model and _model_exists_on_hf,  *)
(* called by the threads that serve concurrent requests on the one         *)
(* VideoService of the application (app.video_service)                     *)

Threads == {"t1", "t2"}

\* the calls made in one behaviour, over all threads
MaxCalls == 2

FR == <<"f","r">>

\* the (source, target) arguments as the callers may spell them
RsInputs ==
    { <<ES, FR>>, <<EN, ES>>,
      <<<<"E","S">>, Spanish>>,
      <<<<"a","r","-","S","A">>, <<"e","n","-","U","S">>>> }

\* normalize_lang_code applied to the two arguments of a call
NormalizedPair(in) == <<normalize_lang_code(in[1]), normalize_lang_code(in[2])>>

\* the arguments as get_translation_model and translate_text normalize them,
\* and as get_translation_model normalizes what translate_text hands it
RsNormalized == [in \in RsInputs |-> NormalizedPair(in)]
RsNormalizedTwice == [in \in RsInputs |-> NormalizedPair(NormalizedPair(in))]

\* model_variants with the plain name tried after the 'tc-big' one
ModelVariantsBigFirst(s, t) ==
    << <<"opus-mt-tc-big", s, t>>, <<"opus-mt", s, t>>, <<"opus-mt-big", s, t>> >>

\* model_variants: the three names tried for a pair, in order
ModelVariants(s, t) ==
    << <<"opus-mt", s, t>>, <<"opus-mt-tc-big", s, t>>, <<"opus-mt-big", s, t>> >>

\* the cache key of a pivot pair: f'{source_lang}-{target_lang}_pivot'
PivotKey(s, t) == <<"pivot", s, t>>

\* what the request to the model hub does
ProbeOutcomes == {"found", "not_found", "timeout", "error"}

\* _model_exists_on_hf: True on status 200, False on any other status, on a
\* timeout and on any other exception
model_exists_on_hf(outcome) == outcome = "found"

\* the loop body of lines 158-168 with the load outside the try
direct_attempt_unguarded(exists, load) ==
    IF ~exists THEN "continue" ELSE IF load = "ok" THEN "loaded" ELSE "raise"

\* the loop body of lines 158-168: the model is loaded when it exists, and
\* an exception of the load is logged and the loop continues
direct_attempt(exists, load) ==
    IF exists /\ load = "ok" THEN "loaded" ELSE "continue"

\* lines 177-195 without the test of the English-to-target model
pivot_attempt_source_only(e1, e2, load) ==
    IF e1 /\ load = "ok" THEN "loaded" ELSE "none"

\* lines 172-200: the pair is loaded when both models exist; a missing model
\* returns None and an exception of a load is logged before None is returned
pivot_attempt(e1, e2, load) ==
    IF ~e1 THEN "none"
    ELSE IF ~e2 THEN "none"
    ELSE IF load = "ok" THEN "loaded" ELSE "none"

\* the answers the pivot stage got: the probes made and, when both models
\* exist, the load
PivotAnswers(e1, e2, load) ==
    IF ~e1 THEN <<"missing">>
    ELSE IF ~e2 THEN <<"found", "missing">>
    ELSE <<"found", "found", load>>

\* the test of line 139 with the languages swapped
prefers_remote_swapped(s, g) == s = EN /\ g = AR

\* line 139: Arabic to English is left to the remote service
prefers_remote(s, g) == s = AR /\ g = EN

\* self.translation_models as a set of entries, one per key
CacheHas(cache, key) == \E e \in cache : e.key = key
CacheGet(cache, key) == CHOOSE e \in cache : e.key = key
CachePut(cache, e) == { x \in cache : x.key # e.key } \cup {e}

\* the first of the names that is in the cache, 0 when none is
FirstCached(cache, names) ==
    IF \E i \in DOMAIN names : CacheHas(cache, names[i])
    THEN CHOOSE i \in DOMAIN names :
             /\ CacheHas(cache, names[i])
             /\ \A j \in 1..(i - 1) : ~CacheHas(cache, names[j])
    ELSE 0

\* via: "resolve" for a call of get_translation_model by a request,
\* "translate" for the call made by translate_text (line 266);
\* probes: the names this call asked the model hub about, in the order asked;
\* answers: what the pivot stage of this call was answered, in the order asked;
\* key: the cache key this call wrote and is about to read back
IdleThread ==
    [ pc |-> "idle", raw |-> <<>>, source |-> <<>>, target |-> <<>>, k |-> 0,
      probed |-> FALSE, loaded |-> FALSE, failed_probe |-> FALSE,
      bad_load |-> FALSE, ret |-> None, prior |-> {}, text_calls |-> <<>>,
      probes |-> <<>>, answers |-> <<>>, key |-> <<>>, via |-> "none" ]

InitResolve ==
    /\ pc = "idle"
    /\ mode = "none"
    /\ store = [id \in VideoIds |-> NewVideo(id, "none")]
    /\ files = {}
    /\ events = <<>>
    /\ calls = <<>>
    /\ client = FALSE
    /\ req = NoReq
    /\ video_id = None
    /\ audio_path = None
    /\ source_lang = None
    /\ segments = <<>>
    /\ detected_language = None
    /\ translated_subs = <<>>
    /\ existing_segments = <<>>
    /\ srt_path = None
    /\ exc = None
    /\ raised = None
    /\ rendered = <<>>
    /\ hp = Off
    /\ rc = Off
    /\ tx = Off
    /\ sr = Off
    /\ rn = Off
    /\ ly = Off
    /\ ts = Off
    /\ nl = Off
    /\ tr = Off
    /\ rs = [ phase |-> "run", cache |-> {}, loads |-> <<>>, replaced |-> FALSE,
              results |-> {}, ncalls |-> 0, th |-> [t \in Threads |-> IdleThread] ]

\* the thread th ends its call of get_translation_model with result ret, back
\* in translate_text when that was the caller; a Direct or Pivot result is
\* noted for the pair
EndCall(r, t, th, ret) ==
    [ r EXCEPT !.th[t] = [th EXCEPT !.pc = IF th.via = "translate" THEN "resolved"
                                          ELSE "returned",
                                    !.ret = ret],
               !.results = IF IsSome(ret)
                           THEN @ \cup {[pair |-> <<th.source, th.target>>,
                                         entry |-> Get(ret)]}
                           ELSE @ ]

\* a load that succeeded: the entry is written under its key
StoreEntry(r, kind, key) ==
    [ r EXCEPT !.cache = CachePut(@, [kind |-> kind, key |-> key,
                                     load |-> Len(r.loads) + 1]),
               !.loads = Append(@, key),
               !.replaced = @ \/ CacheHas(r.cache, key) ]

\* lines 134-141: the arguments are normalized; (ar, en) returns None at once
RsCall(t) ==
    /\ rs.phase = "run"
    /\ rs.th[t].pc \in {"idle", "returned", "translated"}
    /\ rs.ncalls < MaxCalls
    /\ \E in \in RsInputs :
           LET s == RsNormalized[in][1]
               g == RsNormalized[in][2]
               th == [IdleThread EXCEPT
                         !.raw = in, !.source = s, !.target = g, !.via = "resolve",
                         !.prior = { x.entry : x \in { y \in rs.results :
                                                         y.pair = <<s, g>> } }]
               r == [rs EXCEPT !.ncalls = @ + 1]
           IN  rs' = IF prefers_remote(s, g)
                     THEN EndCall(r, t, th, None)
                     ELSE [r EXCEPT !.th[t] = [th EXCEPT !.pc = "cache"]]
    /\ UNCHANGED <<pipelineVars, ts, nl, tr, ly, rn, sr, tx, rc, hp>>

\* lines 143-153: the first cached variant is returned
RsCacheCheck(t) ==
    /\ rs.phase = "run"
    /\ rs.th[t].pc = "cache"
    /\ LET th == rs.th[t]
           names == ModelVariants(th.source, th.target)
           i == FirstCached(rs.cache, names)
       IN  rs' = IF i > 0
                 THEN EndCall(rs, t, th, Some(CacheGet(rs.cache, names[i])))
                 ELSE [rs EXCEPT !.th[t] = [th EXCEPT !.pc = "direct", !.k = 1]]
    /\ UNCHANGED <<pipelineVars, ts, nl, tr, ly, rn, sr, tx, rc, hp>>

\* lines 157-164: one iteration of the loop over the variants: the probe, and
\* when the model exists the load and the write to the cache; the probe and
\* the load touch nothing shared, so they are taken with the write
RsDirect(t) ==
    /\ rs.phase = "run"
    /\ rs.th[t].pc = "direct"
    /\ \E probe \in ProbeOutcomes, load \in {"ok", "error"} :
           LET th == rs.th[t]
               name == ModelVariants(th.source, th.target)[th.k]
               exists == model_exists_on_hf(probe)
               th1 == [th EXCEPT !.probed = TRUE,
                                 !.failed_probe = @ \/ probe \in {"timeout", "error"},
                                 !.bad_load = @ \/ (exists /\ probe # "found"),
                                 !.probes = Append(@, name)]
           IN  /\ (~exists => load = "ok")
               /\ rs' =
                     IF direct_attempt(exists, load) = "loaded"
                     THEN LET r == StoreEntry(rs, "direct", name) IN
                          [r EXCEPT !.th[t] = [th1 EXCEPT !.loaded = TRUE,
                                                          !.key = name,
                                                          !.pc = "readback"]]
                     ELSE IF direct_attempt(exists, load) = "raise"
                     THEN [rs EXCEPT !.th[t] = [th1 EXCEPT !.pc = "raised"]]
                     ELSE IF th.k < Len(ModelVariants(th.source, th.target))
                     THEN [rs EXCEPT !.th[t] = [th1 EXCEPT !.k = @ + 1]]
                     ELSE IF th.source # EN
                     THEN [rs EXCEPT !.th[t] = [th1 EXCEPT !.pc = "pivot"]]
                     ELSE EndCall(rs, t, th1, None)
    /\ UNCHANGED <<pipelineVars, ts, nl, tr, ly, rn, sr, tx, rc, hp>>

\* lines 171-194, 196-200: the pivot through English: two probes, the loads,
\* the write
RsPivot(t) ==
    /\ rs.phase = "run"
    /\ rs.th[t].pc = "pivot"
    /\ \E p1 \in ProbeOutcomes, p2 \in ProbeOutcomes, load \in {"ok", "error"} :
           LET th == rs.th[t]
               e1 == model_exists_on_hf(p1)
               e2 == model_exists_on_hf(p2)
               source_to_en == <<"opus-mt", th.source, EN>>
               en_to_target == <<"opus-mt", EN, th.target>>
               th1 == [th EXCEPT !.probed = TRUE,
                                 !.failed_probe = @ \/ p1 \in {"timeout", "error"},
                                 !.probes = Append(@, source_to_en),
                                 !.answers = PivotAnswers(e1, e2, load)]
               th2 == [th1 EXCEPT !.failed_probe = @ \/ p2 \in {"timeout", "error"},
                                  !.bad_load = @ \/ (e1 /\ e2 /\ (p1 # "found"
                                                                   \/ p2 # "found")),
                                  !.probes = Append(@, en_to_target)]
           IN  /\ (~e1 => p2 = "found")
               /\ (~e1 \/ ~e2 => load = "ok")
               /\ rs' =
                     IF pivot_attempt(e1, e2, load) = "none"
                     THEN EndCall(rs, t, IF e1 THEN th2 ELSE th1, None)
                     ELSE LET key == PivotKey(th.source, th.target)
                              r == StoreEntry(rs, "pivot", key)
                          IN  [r EXCEPT !.th[t] = [th2 EXCEPT !.loaded = TRUE,
                                                              !.key = key,
                                                              !.pc = "readback"]]
    /\ UNCHANGED <<pipelineVars, ts, nl, tr, ly, rn, sr, tx, rc, hp>>

\* lines 165 and 195: 'return self.translation_models[key]', a read of the
\* shared dict after the write, with the writes of other threads in between
RsReadBack(t) ==
    /\ rs.phase = "run"
    /\ rs.th[t].pc = "readback"
    /\ rs' = EndCall(rs, t, rs.th[t], Some(CacheGet(rs.cache, rs.th[t].key)))
    /\ UNCHANGED <<pipelineVars, ts, nl, tr, ly, rn, sr, tx, rc, hp>>

\* the answers of the collaborators when get_translation_model returned a
\* strategy of the kind ("none" also when it was not called): the model
\* generates or raises, the key is configured or missing, the remote service
\* answers or fails
RsTextEnvs(kind) == { e \in TranslateEnvs : e.model = kind }

\* what translate_text returns and calls for the arguments in, over the
\* client states and the answers envs
RsOutcomes(in, envs) ==
    { [ret |-> r.ret, calls |-> r.calls] :
          r \in { translate_text(Hola, in[1], in[2], cl, env) :
                      cl \in BOOLEAN, env \in envs } }

\* RsOutcomes for every input and every kind of strategy
RsOutcomesOf ==
    [ in \in RsInputs, kind \in {"none", "direct", "pivot"} |->
        RsOutcomes(in, RsTextEnvs(kind)) ]

\* translate_text up to its call of get_translation_model (lines 251-266):
\* equal languages return the text and (ar, en) goes to the remote service,
\* both without the resolver; any other pair calls get_translation_model with
\* the normalized codes, which normalizes them again (lines 134-141)
RsTranslateCall(t) ==
    /\ rs.phase = "run"
    /\ rs.th[t].pc \in {"idle", "returned", "translated"}
    /\ rs.ncalls < MaxCalls
    /\ \E in \in RsInputs :
           LET s == RsNormalized[in][1]
               g == RsNormalized[in][2]
               s2 == RsNormalizedTwice[in][1]
               g2 == RsNormalizedTwice[in][2]
               th == [IdleThread EXCEPT
                         !.raw = in, !.source = s2, !.target = g2,
                         !.via = "translate",
                         !.prior = { x.entry : x \in { y \in rs.results :
                                                         y.pair = <<s2, g2>> } }]
               r == [rs EXCEPT !.ncalls = @ + 1]
           IN  IF s = g \/ (s = AR /\ g = EN)
               THEN \E out \in RsOutcomesOf[in, "none"] :
                        rs' = [r EXCEPT !.th[t] =
                                  [IdleThread EXCEPT
                                      !.pc = "translated", !.raw = in,
                                      !.source = s, !.target = g,
                                      !.via = "translate",
                                      !.ret = out.ret, !.text_calls = out.calls]]
               ELSE rs' = IF prefers_remote(s2, g2)
                          THEN EndCall(r, t, th, None)
                          ELSE [r EXCEPT !.th[t] = [th EXCEPT !.pc = "cache"]]
    /\ UNCHANGED <<pipelineVars, ts, nl, tr, ly, rn, sr, tx, rc, hp>>

\* translate_text after get_translation_model returned (lines 267-308): the
\* model it was given is invoked, or the remote service when it was given
\* none, when the pivot pair cannot be used or when the model raises
RsTranslateText(t) ==
    /\ rs.phase = "run"
    /\ rs.th[t].pc = "resolved"
    /\ LET th == rs.th[t]
           kind == IF IsSome(th.ret) THEN Get(th.ret).kind ELSE "none"
       IN  \E out \in RsOutcomesOf[th.raw, kind] :
               rs' = [rs EXCEPT !.th[t] = [th EXCEPT !.pc = "translated",
                                                    !.ret = out.ret,
                                                    !.text_calls = out.calls]]
    /\ UNCHANGED <<pipelineVars, ts, nl, tr, ly, rn, sr, tx, rc, hp>>

NextResolve ==
    \E t \in Threads :
        \/ RsCall(t)
        \/ RsCacheCheck(t)
        \/ RsDirect(t)
        \/ RsPivot(t)
        \/ RsReadBack(t)
        \/ RsTranslateCall(t)
        \/ RsTranslateText(t)

SpecResolve == InitResolve /\ [][NextResolve]_vars

-----------------------------------------------------------------------------
(* The model resolver, checked under SpecResolve *)

IsStrategy(th) ==
    \/ th.ret = None
    \/ /\ IsSome(th.ret)
       /\ \/ /\ Get(th.ret).kind = "direct"
             /\ \E i \in 1..3 :
                    Get(th.ret).key = ModelVariants(th.source, th.target)[i]
          \/ /\ Get(th.ret).kind = "pivot"
             /\ Get(th.ret).key = PivotKey(th.source, th.target)

\* C11: get_translation_model never raises, whatever the probes and loads
\* answer; it returns None (the remote fallback), a direct model of the pair
\* or the pivot pair of the pair; and no model is loaded on a probe that
\* timed out or failed, as on one that found nothing
C11_ResolverNeverRaises ==
    rs.phase = "run" =>
        \A t \in Threads :
            /\ rs.th[t].pc # "raised"
            /\ ~rs.th[t].bad_load
            /\ rs.th[t].pc \in {"returned", "resolved"} => IsStrategy(rs.th[t])

\* a call met a probe that timed out or failed, went on, and returned a model
C11_Witness ==
    /\ rs.phase = "run"
    /\ \E t \in Threads :
           /\ rs.th[t].pc = "returned"
           /\ rs.th[t].failed_probe
           /\ IsSome(rs.th[t].ret)
           /\ Get(rs.th[t].ret).kind = "pivot"

\* C12: get_translation_model for a pair (x, x) returns without a probe,
\* without a load and with the cache as it was
C12_SameLanguageNoProbe ==
    rs.phase = "run" =>
        \A t \in Threads :
            rs.th[t].pc \in {"cache", "direct", "pivot", "returned"}
                /\ rs.th[t].source = rs.th[t].target
            => /\ ~rs.th[t].probed
               /\ ~rs.th[t].loaded
               /\ rs.th[t].ret = None

\* C13: get_translation_model for a pair that normalizes to (ar, en) returns
\* None with no probe and no load, whatever the cache holds, and translate_text
\* for such a pair calls nothing but the remote text service
C13_ArabicEnglishRemote ==
    rs.phase = "run" =>
        \A t \in Threads :
            ( /\ rs.th[t].pc # "idle"
              /\ NormalizedPair(rs.th[t].raw) = <<AR, EN>> )
            => /\ rs.th[t].pc \in {"returned", "translated"}
               /\ ~rs.th[t].probed
               /\ ~rs.th[t].loaded
               /\ rs.th[t].pc = "returned" => rs.th[t].ret = None
               /\ rs.th[t].pc = "translated" =>
                      /\ \A i \in DOMAIN rs.th[t].text_calls :
                             rs.th[t].text_calls[i] = "groq"
                      /\ IsSome(rs.th[t].ret) => rs.th[t].text_calls = <<"groq">>

\* a pair spelled 'ar-SA', 'en-US' was resolved while the cache held a model
C13_Witness ==
    /\ rs.phase = "run"
    /\ rs.cache # {}
    /\ \E t \in Threads :
           /\ rs.th[t].pc = "returned"
           /\ rs.th[t].raw = <<<<"a","r","-","S","A">>, <<"e","n","-","U","S">>>>

\* C14: a call made after get_translation_model returned a Direct or Pivot
\* strategy for the same pair of two languages returns that strategy, with no
\* probe and no load
C14_ResolvedOnce ==
    rs.phase = "run" =>
        \A t \in Threads :
            ( /\ rs.th[t].prior # {}
              /\ rs.th[t].source # rs.th[t].target
              /\ rs.th[t].pc \in {"cache", "direct", "pivot", "returned"} )
            => /\ ~rs.th[t].probed
               /\ ~rs.th[t].loaded
               /\ rs.th[t].pc = "returned" =>
                      IsSome(rs.th[t].ret) /\ Get(rs.th[t].ret) \in rs.th[t].prior

\* C15: whatever the interleaving of the calls, the model of a direct
\* variant is loaded at most once and its cache entry, once written, is the
\* one every call of the pair returned
C15_LoadedAtMostOnce ==
    rs.phase = "run" =>
        /\ \A i \in DOMAIN rs.loads, j \in DOMAIN rs.loads :
               rs.loads[i] = rs.loads[j] /\ rs.loads[i][1] # "pivot"
                   /\ rs.loads[i][2] # rs.loads[i][3]
               => i = j
        /\ \A x \in rs.results, y \in rs.results :
               x.entry.key = y.entry.key /\ x.entry.kind = "direct"
                   /\ x.pair[1] # x.pair[2]
               => x.entry = y.entry

\* the kinds of direct model, in the order of priority
CandidateOrder == <<"opus-mt", "opus-mt-tc-big", "opus-mt-big">>

\* C31: a call that missed the cache asks the model hub about the direct
\* candidates in the order plain, 'tc-big', 'big'; a call that returned a
\* direct model it loaded returned the candidate it asked about last, asked
\* about nothing after it, and the cache holds that candidate
C31_DirectProbedInOrder ==
    rs.phase = "run" =>
        \A t \in Threads :
            LET th == rs.th[t] IN
            th.pc \in {"direct", "pivot", "readback", "returned", "resolved"} =>
                /\ \A i \in DOMAIN th.probes :
                       i <= 3 => th.probes[i] =
                                     <<CandidateOrder[i], th.source, th.target>>
                /\ th.pc = "direct" => Len(th.probes) = th.k - 1
                /\ ( th.pc \in {"returned", "resolved"} /\ th.loaded
                     /\ IsSome(th.ret) /\ Get(th.ret).kind = "direct" )
                   => /\ Len(th.probes) \in 1..3
                      /\ Get(th.ret).key = th.probes[Len(th.probes)]
                      /\ CacheHas(rs.cache, Get(th.ret).key)

\* a call found the plain candidate missing, loaded the 'tc-big' one and
\* returned it without asking about the 'big' one
C31_Witness ==
    /\ rs.phase = "run"
    /\ \E t \in Threads :
           /\ rs.th[t].pc = "returned"
           /\ rs.th[t].loaded
           /\ rs.th[t].probes = << <<"opus-mt", ES, FR>>, <<"opus-mt-tc-big", ES, FR>> >>
           /\ IsSome(rs.th[t].ret)
           /\ Get(rs.th[t].ret).key = <<"opus-mt-tc-big", ES, FR>>

\* C32: a call returns a pivot pair only when its source is not English, it
\* asked about the three direct candidates and loaded none, and both the
\* source-to-English and the English-to-target model were found and loaded;
\* when a pivot model is missing or a load fails, or when the source is
\* English and no direct candidate was loaded, the call returns None and
\* writes no pivot entry
C32_PivotOnlyWhenBothExist ==
    rs.phase = "run" =>
        \A t \in Threads :
            LET th == rs.th[t] IN
            th.pc \in {"returned", "resolved"} =>
                /\ ( IsSome(th.ret) /\ Get(th.ret).kind = "pivot" )
                   => /\ th.source # EN
                      /\ Len(th.probes) = 5
                      /\ \A i \in 1..3 : th.probes[i] =
                             <<CandidateOrder[i], th.source, th.target>>
                      /\ th.probes[4] = <<"opus-mt", th.source, EN>>
                      /\ th.probes[5] = <<"opus-mt", EN, th.target>>
                      /\ th.answers = <<"found", "found", "ok">>
                      /\ ~th.bad_load
                /\ ( th.answers # <<>> /\ th.answers # <<"found", "found", "ok">> )
                   => /\ th.ret = None
                      /\ ~th.loaded
                      /\ rs.ncalls = 1 =>
                             ~CacheHas(rs.cache, PivotKey(th.source, th.target))
                /\ ( th.source = EN /\ ~th.loaded /\ th.probes # <<>> )
                   => /\ th.ret = None
                      /\ th.answers = <<>>
                      /\ Len(th.probes) = 3
                      /\ rs.ncalls = 1 => rs.cache = {}

\* one call returned the pivot pair of (es, fr), and another call for which
\* both pivot models were found returned None because a load failed
C32_Witness ==
    /\ rs.phase = "run"
    /\ \E t \in Threads, u \in Threads :
           /\ rs.th[t].pc = "returned"
           /\ IsSome(rs.th[t].ret)
           /\ Get(rs.th[t].ret).key = PivotKey(ES, FR)
           /\ rs.th[u].pc = "returned"
           /\ rs.th[u].answers = <<"found", "found", "error">>
           /\ rs.th[u].ret = None

-----------------------------------------------------------------------------
(* utils/language_utils.py: normalize_lang_code on its own, applied once   *)
(* and then to its own result                                              *)

\* the longest arbitrary input string
NlMaxLen == 4

\* the characters of the arbitrary inputs: letters in both cases, a blank,
\* the separator
NlChars == {"e", "n", "E", "s", " ", "-"}

UpperChar(c) ==
    IF \E i \in 1..Len(LowerCs) : LowerCs[i] = c
    THEN UpperCs[CHOOSE i \in 1..Len(LowerCs) : LowerCs[i] = c]
    ELSE c

\* the spellings of s in every letter case
RECURSIVE CaseVariants(_)
CaseVariants(s) ==
    IF s = <<>> THEN {<<>>}
    ELSE { <<c>> \o r : c \in {Head(s), UpperChar(Head(s))},
                         r \in CaseVariants(Tail(s)) }

\* the regions of the locale tags
NlRegions == { <<"U","S">>, <<"g","b">>, <<>>, <<"H","a","n","s","-","C","N">> }

\* the spellings of the known languages: [x |-> spelling, of |-> code]
NlSpellings ==
    UNION { { [x |-> v, of |-> Some(c)] : v \in CaseVariants(c) }
            \cup { [x |-> v \o <<"-">> \o r, of |-> Some(c)] :
                       v \in CaseVariants(c), r \in NlRegions }
            : c \in LanguageCodes }
    \cup UNION { { [x |-> v, of |-> Some(p[2])] : v \in CaseVariants(p[1]) }
                 : p \in LANGUAGE_NAME_MAP }

\* the arbitrary strings of at most NlMaxLen characters
NlArbitrary == { [x |-> v, of |-> None] : v \in SeqUpTo(NlChars, NlMaxLen) }

InitNormalize ==
    /\ pc = "idle"
    /\ mode = "none"
    /\ store = [id \in VideoIds |-> NewVideo(id, "none")]
    /\ files = {}
    /\ events = <<>>
    /\ calls = <<>>
    /\ client = FALSE
    /\ req = NoReq
    /\ video_id = None
    /\ audio_path = None
    /\ source_lang = None
    /\ segments = <<>>
    /\ detected_language = None
    /\ translated_subs = <<>>
    /\ existing_segments = <<>>
    /\ srt_path = None
    /\ exc = None
    /\ raised = None
    /\ rendered = <<>>
    /\ hp = Off
    /\ rc = Off
    /\ tx = Off
    /\ sr = Off
    /\ rn = Off
    /\ ly = Off
    /\ ts = Off
    /\ rs = Off
    /\ tr = Off
    /\ \E in \in NlSpellings \cup NlArbitrary :
           nl = [phase |-> "input", x |-> in.x, of |-> in.of, y |-> <<>>, z |-> <<>>]

\* y = normalize_lang_code(x)
NlNormalize ==
    /\ nl.phase = "input"
    /\ nl' = [nl EXCEPT !.phase = "once", !.y = normalize_lang_code(nl.x)]
    /\ UNCHANGED <<pipelineVars, ts, rs, tr, ly, rn, sr, tx, rc, hp>>

\* z = normalize_lang_code(y)
NlNormalizeAgain ==
    /\ nl.phase = "once"
    /\ nl' = [nl EXCEPT !.phase = "twice", !.z = normalize_lang_code(nl.y)]
    /\ UNCHANGED <<pipelineVars, ts, rs, tr, ly, rn, sr, tx, rc, hp>>

NextNormalize == NlNormalize \/ NlNormalizeAgain

SpecNormalize == InitNormalize /\ [][NextNormalize]_vars

\* C16: normalize_lang_code applied to its own result returns that result
C16_Idempotent ==
    nl.phase = "twice" => nl.z = nl.y

\* C17: every spelling of a known language, its code or its name in any
\* letter case or its code followed by '-' and a region, normalizes to the
\* 2-letter code of the language
C17_SpellingsAgree ==
    nl.phase \in {"once", "twice"} /\ IsSome(nl.of) =>
        /\ nl.y = Get(nl.of)
        /\ Len(nl.y) = 2

\* the name 'JaPaNeSe' in mixed case has been normalized to 'ja'
C17_Witness ==
    /\ nl.phase = "once"
    /\ nl.x = <<"J","a","P","a","N","e","S","e">>
    /\ nl.y = <<"j","a">>

\* the trimmed, lower-cased input is a known code or name, or has one before
\* its first '-'
NlKnown(x) ==
    LET l == Lower(Strip(x))
        names == { p[1] : p \in LANGUAGE_NAME_MAP }
    IN  \/ l \in LanguageCodes \cup names
        \/ Contains(l, "-") /\ SplitFirst(l, "-") \in LanguageCodes \cup names

\* C18 as stated: an input that is no known code, locale tag or name comes
\* back unchanged
C18_UnknownUnchanged ==
    nl.phase \in {"once", "twice"} /\ ~NlKnown(nl.x) => nl.y = nl.x

\* C18 as amended: an input that is no known code, locale tag or name comes
\* back trimmed and lower-cased, cut before its first '-' if it has one
C18_UnknownTrimmedLowered ==
    nl.phase \in {"once", "twice"} /\ ~NlKnown(nl.x) =>
        LET l == Lower(Strip(nl.x)) IN
        nl.y = IF Contains(l, "-") THEN SplitFirst(l, "-") ELSE l

\* an unknown input with upper case and a blank has been normalized
C18_Witness ==
    /\ nl.phase = "once"
    /\ nl.x = <<" ", "E", "s", "s">>
    /\ nl.y = <<"e", "s", "s">>

-----------------------------------------------------------------------------
(* core/video_service.py: _transcribe_with_groq on its own *)

\* the source languages passed in: codes as the pipeline passes them, and
\* spellings a caller may pass
TrSources == { ES, EN, <<"E","S">>, Spanish }

TrTargets == { EN, ES, FR }

\* the segment lists of the responses: those of the pipeline, and lists with
\* a segment whose text is None
TrSegmentLists ==
    RawSegmentLists \cup
    { << Seg(0, 2, PyNone), Seg(2, 4, Mundo) >>,
      << Seg(0, 2, Hola), Seg(2, 4, PyNone) >>,
      << [start |-> 0, end |-> 2], Seg(2, 4, PyNone), Seg(4, 6, Mundo) >> }

TrEnvs ==
    [ audio          : {"ok", "unreadable"},
      translations   : {"ok", "fail"},
      transcriptions : {"ok", "fail"},
      language       : ResponseLanguages,
      segments       : TrSegmentLists ]

InitTranscribe ==
    /\ pc = "idle"
    /\ mode = "none"
    /\ store = [id \in VideoIds |-> NewVideo(id, "none")]
    /\ files = {}
    /\ events = <<>>
    /\ calls = <<>>
    /\ client = FALSE
    /\ req = NoReq
    /\ video_id = None
    /\ audio_path = None
    /\ source_lang = None
    /\ segments = <<>>
    /\ detected_language = None
    /\ translated_subs = <<>>
    /\ existing_segments = <<>>
    /\ srt_path = None
    /\ exc = None
    /\ raised = None
    /\ rendered = <<>>
    /\ hp = Off
    /\ rc = Off
    /\ tx = Off
    /\ sr = Off
    /\ rn = Off
    /\ ly = Off
    /\ ts = Off
    /\ rs = Off
    /\ nl = Off
    /\ \E s \in TrSources, g \in TrTargets, env \in TrEnvs :
           tr = [ phase |-> "input", source |-> s, target |-> g, env |-> env,
                  speech |-> <<>>, result |-> <<>> ]

\* one call of _transcribe_with_groq: the speech calls it makes and the
\* result it returns
TrTranscribe ==
    /\ tr.phase = "input"
    /\ tr' = [tr EXCEPT
                 !.phase = "returned",
                 !.speech = TranscribeCalls(tr.source, tr.target, tr.env),
                 !.result = <<transcribe_with_groq(tr.source, tr.target, tr.env)>>]
    /\ UNCHANGED <<pipelineVars, ts, rs, nl, ly, rn, sr, tx, rc, hp>>

NextTranscribe == TrTranscribe

SpecTranscribe == InitTranscribe /\ [][NextTranscribe]_vars

\* the audio could not be read, or every speech call that was made failed
TrCallFailed ==
    \/ tr.env.audio = "unreadable"
    \/ \A i \in 1..Len(tr.speech) : tr.env[tr.speech[i]] = "fail"

\* C19: _transcribe_with_groq returns in every case, and when the speech call
\* failed (the audio is unreadable, or the translate variant and the plain
\* call both failed) the result has no segments, the source language as it
\* was passed in, and empty sample text
C19_FailureGivesEmptyResult ==
    tr.phase = "returned" =>
        /\ Len(tr.result) = 1
        /\ TrCallFailed =>
              /\ tr.result[1].segments = <<>>
              /\ tr.result[1].detected_language = tr.source
              /\ tr.result[1].sample_text = <<>>

\* the translate variant and the fallback both failed for the source 'ES',
\* and the result carries 'ES' as it was passed in
C19_Witness ==
    /\ tr.phase = "returned"
    /\ tr.speech = <<"translations", "transcriptions">>
    /\ tr.env.translations = "fail" /\ tr.env.transcriptions = "fail"
    /\ tr.source = <<"E","S">>
    /\ tr.result[1].detected_language = <<"E","S">>
    /\ tr.result[1].segments = <<>>

\* a raw segment is well formed: its three keys, end > start, and a text
\* that is not blank
WellFormed(r) ==
    /\ HasKeys(r)
    /\ r.end > r.start
    /\ IsStr(r.text)
    /\ \E i \in 1..Len(r.text) : ~IsSpace(r.text[i])

\* ps is raw with its malformed segments removed, in order, each text trimmed
RECURSIVE IsFiltered(_, _)
IsFiltered(ps, raw) ==
    IF raw = <<>> THEN ps = <<>>
    ELSE IF WellFormed(Head(raw))
         THEN /\ ps # <<>>
              /\ Head(ps).start = Head(raw).start
              /\ Head(ps).end = Head(raw).end
              /\ Head(ps).text = Strip(Head(raw).text)
              /\ IsFiltered(Tail(ps), Tail(raw))
         ELSE IsFiltered(ps, Tail(raw))

\* C20: when the speech service answered, the returned segments are the
\* well-formed raw segments in order (text trimmed); a malformed segment is
\* left out and the others are still returned, so every returned segment has
\* end > start and a non-empty text
C20_MalformedDroppedOthersKept ==
    tr.phase = "returned" /\ ~TrCallFailed =>
        /\ IsFiltered(tr.result[1].segments, tr.env.segments)
        /\ \A i \in 1..Len(tr.result[1].segments) :
              /\ tr.result[1].segments[i].end > tr.result[1].segments[i].start
              /\ tr.result[1].segments[i].text # <<>>

\* C21: with the audio open, the translate-to-English variant is called
\* first exactly when the target passed in is 'en' and the source is not; when
\* it fails the plain transcription is called once after it; in every other
\* case the plain transcription is the only call
C21_TranslateVariantFirst ==
    tr.phase = "returned" /\ tr.env.audio = "ok" =>
        IF tr.target = EN /\ tr.source # EN
        THEN /\ tr.speech[1] = "translations"
             /\ tr.env.translations = "ok" => tr.speech = <<"translations">>
             /\ tr.env.translations = "fail" =>
                    tr.speech = <<"translations", "transcriptions">>
        ELSE tr.speech = <<"transcriptions">>

\* the translate variant failed, the plain call after it answered, and its
\* segments are returned
C21_Witness ==
    /\ tr.phase = "returned"
    /\ tr.env.translations = "fail" /\ tr.env.transcriptions = "ok"
    /\ tr.speech = <<"translations", "transcriptions">>
    /\ tr.result[1].segments # <<>>

-----------------------------------------------------------------------------
(* core/video_service.py: _calculate_subtitle_properties on its own.       *)
(* The code computes in floating point and truncates with int(); here a    *)
(* size is the exact fraction num / den, and int() is \div, all values     *)
(* being non-negative. On the dimensions below the two agree.              *)

\* the pipeline at rest, as VideoService.__init__ leaves it
PipelineIdle ==
    /\ pc = "idle"
    /\ mode = "none"
    /\ store = [id \in VideoIds |-> NewVideo(id, "none")]
    /\ files = {}
    /\ events = <<>>
    /\ calls = <<>>
    /\ client = FALSE
    /\ req = NoReq
    /\ video_id = None
    /\ audio_path = None
    /\ source_lang = None
    /\ segments = <<>>
    /\ detected_language = None
    /\ translated_subs = <<>>
    /\ existing_segments = <<>>
    /\ srt_path = None
    /\ exc = None
    /\ raised = None
    /\ rendered = <<>>

Max(a, b) == IF a >= b THEN a ELSE b
Min(a, b) == IF a <= b THEN a ELSE b

\* the clamp left undone
NoClamp(x, lo, hi) == x

\* min(max(x, lo), hi)
Clamp(x, lo, hi) == Min(Max(x, lo), hi)

\* the except branch answering with a one-line layout
DefaultPropertiesOneLine == <<24, 1, 20, 28, 50, 40>>

\* the tuple of the except branch: font size, max lines, vertical margin, line
\* height, horizontal margin, characters per line
DefaultProperties == <<24, 2, 20, 28, 50, 40>>

\* the orientation test with the boundary ratio counted as vertical
is_vertical_inclusive(width, height) == 5 * width <= 3 * height

\* aspect_ratio = width / height; is_vertical = aspect_ratio < 0.6
is_vertical(width, height) == 5 * width < 3 * height

\* if user_font_size: None and 0 are both "no override"
HasOverride(user_font_size) == IsSome(user_font_size) /\ Get(user_font_size) # 0

\* the vertical branch; base_size = min(width, height) * 0.038 * 0.92 is
\* min(width, height) * 437 / 12500
VerticalProperties(width, height, user_font_size) ==
    LET den == IF HasOverride(user_font_size) THEN 1 ELSE 12500
        num == IF HasOverride(user_font_size)
               THEN Clamp(Get(user_font_size), 12, 20)
               ELSE Clamp(Min(width, height) * 437, 14 * den, 20 * den)
        line_spacing == num \div (4 * den)
    IN  << num \div den,
           1,
           (2 * height) \div 25,
           (num + line_spacing * den) \div den,
           Max((3 * width) \div 50, 15),
           42 >>

\* the standard branch; base_size = height * 0.042 is height * 21 / 500, and
\* (width * 0.82) / (base_size * 0.6) is 41 * width * den / (30 * num)
StandardProperties(width, height, user_font_size) ==
    LET den == IF HasOverride(user_font_size) THEN 1 ELSE 500
        num == IF HasOverride(user_font_size)
               THEN Clamp(Get(user_font_size), 22, 44)
               ELSE Clamp(height * 21, 22 * den, 44 * den)
        line_spacing == (3 * num) \div (10 * den)
    IN  << num \div den,
           2,
           (3 * height) \div 50,
           (num + line_spacing * den) \div den,
           Max((3 * width) \div 25, 50),
           Clamp((41 * width * den) \div (30 * num), 20, 50) >>

\* _calculate_subtitle_properties(width, height, user_font_size): a dimension
\* is <<n>>, or <<>> for a value that is no number; dividing by zero or by no
\* number raises inside the try and the except branch answers
calculate_subtitle_properties(width, height, user_font_size) ==
    IF ~IsSome(width) \/ ~IsSome(height) THEN DefaultProperties
    ELSE IF Get(height) = 0 THEN DefaultProperties
    ELSE IF is_vertical(Get(width), Get(height))
         THEN VerticalProperties(Get(width), Get(height), user_font_size)
         ELSE StandardProperties(Get(width), Get(height), user_font_size)

LyWidths ==
    { 1, 3, 320, 360, 480, 576, 600, 640, 720, 1080, 1151, 1152, 1280, 1920, 3840 }

LyHeights ==
    { 0, 1, 5, 240, 480, 600, 640, 720, 1000, 1080, 1280, 1920, 2160, 3840 }

LyOverrides ==
    { None } \cup { Some(u) : u \in { -4, 0, 8, 12, 13, 16, 20, 21, 22, 30, 44, 45, 60 } }

InitLayout ==
    /\ PipelineIdle
    /\ hp = Off
    /\ rc = Off
    /\ tx = Off
    /\ sr = Off
    /\ ts = Off
    /\ rs = Off
    /\ nl = Off
    /\ tr = Off
    /\ rn = Off
    /\ \E w \in { Some(n) : n \in LyWidths } \cup { None },
          h \in { Some(n) : n \in LyHeights } \cup { None },
          u \in LyOverrides :
           ly = [ phase |-> "input", width |-> w, height |-> h,
                  user_font_size |-> u, result |-> <<>> ]

\* one call of _calculate_subtitle_properties
LyCalculate ==
    /\ ly.phase = "input"
    /\ ly' = [ly EXCEPT
                 !.phase = "returned",
                 !.result = calculate_subtitle_properties(ly.width, ly.height,
                                                          ly.user_font_size)]
    /\ UNCHANGED <<pipelineVars, ts, rs, nl, tr, rn, sr, tx, rc, hp>>

NextLayout == LyCalculate

SpecLayout == InitLayout /\ [][NextLayout]_vars

\* the call was made with two positive dimensions
LyPositive ==
    /\ ly.phase = "returned"
    /\ IsSome(ly.width) /\ IsSome(ly.height)
    /\ Get(ly.width) > 0 /\ Get(ly.height) > 0

\* C22: for positive dimensions the layout has one line exactly when
\* width / height < 0.6 and two lines otherwise: one line for 1080x1920, two
\* for 1920x1080 and for the ratio 0.6 itself (600x1000)
C22_MaxLinesByOrientation ==
    LyPositive =>
        /\ ly.result[2] = (IF 5 * Get(ly.width) < 3 * Get(ly.height) THEN 1 ELSE 2)
        /\ Get(ly.width) = 1080 /\ Get(ly.height) = 1920 => ly.result[2] = 1
        /\ Get(ly.width) = 1920 /\ Get(ly.height) = 1080 => ly.result[2] = 2
        /\ Get(ly.width) = 600 /\ Get(ly.height) = 1000 => ly.result[2] = 2

\* a video of the boundary ratio 0.6 has been laid out on two lines
C22_Witness ==
    /\ LyPositive
    /\ Get(ly.width) = 600 /\ Get(ly.height) = 1000
    /\ ly.result[2] = 2

\* C23: _calculate_subtitle_properties returns in every case, and for height 0
\* and for a dimension that is no number the result is (24, 2, 20, 28, 50, 40)
C23_DefaultOnError ==
    ly.phase = "returned" =>
        /\ Len(ly.result) = 6
        /\ (~IsSome(ly.width) \/ ~IsSome(ly.height) \/ ly.height = Some(0)) =>
              ly.result = <<24, 2, 20, 28, 50, 40>>

\* the layout of a video of height 0 has been asked for and answered
C23_Witness ==
    /\ ly.phase = "returned"
    /\ ly.width = Some(1080) /\ ly.height = Some(0)
    /\ ly.result[1] = 24

\* C24: for positive dimensions the font size is in 14..20 for a vertical
\* video without override, in 12..20 for a vertical video with override, in
\* 22..44 for a standard video, and the characters per line of a standard
\* video are in 20..50
C24_FontSizeRanges ==
    LyPositive =>
        /\ ly.result[2] = 1 /\ ~IsSome(ly.user_font_size) => ly.result[1] \in 14..20
        /\ ly.result[2] = 1 /\ IsSome(ly.user_font_size) => ly.result[1] \in 12..20
        /\ ly.result[2] = 2 => ly.result[1] \in 22..44 /\ ly.result[6] \in 20..50

\* a standard video with a font-size override above the range has been laid
\* out with the largest size
C24_Witness ==
    /\ LyPositive
    /\ ly.user_font_size = Some(60)
    /\ ly.result[2] = 2
    /\ ly.result[1] = 44

-----------------------------------------------------------------------------
(* core/video_service.py: the try block of _add_subtitles on its own, with *)
(* the dimensions of the video and the renderer invocations it makes       *)

\* <<width, height>> as the probe reports them
RnDims ==
    { <<1080, 1920>>, <<720, 1280>>, <<600, 1000>>, <<1920, 1080>>, <<1280, 720>>,
      <<1080, 0>> }

RnOverrides == { None, Some(16), Some(30) }

RnEnvs ==
    [ probe    : {"ok", "ffmpeg_error", "no_video"},  \* ffmpeg.probe and the stream pick
      font     : {"ok", "missing"},                   \* get_font_path
      primary  : {"ok", "ffmpeg_error"},              \* the styled render
      fallback : {"ok", "fail"} ]                     \* the minimal-style render

\* the orientation test of the render with the threshold 0.5
render_is_vertical_half(width, height) == 2 * width < height

\* if (width/height) < 0.6, for height > 0
render_is_vertical(width, height) == 5 * width < 3 * height

\* what ends the styled attempt, in the order of the statements of the try
\* block: "none" when the styled render ran and succeeded
PrimaryFailure(width, height, env) ==
    IF env.probe = "ffmpeg_error" THEN "probe_ffmpeg_error"
    ELSE IF env.probe = "no_video" THEN "no_video_stream"
    ELSE IF env.font = "missing" THEN "font_not_found"
    ELSE IF height = 0 THEN "division_by_zero"
    ELSE IF env.primary = "ffmpeg_error" THEN "render_ffmpeg_error"
    ELSE "none"

\* a handler that takes every failure to the fallback render
caught_by_fallback_any(cause) == cause # "none"

\* except ffmpeg.Error: the probe and the render run raise ffmpeg.Error; the
\* other failures reach except Exception, which re-raises
caught_by_fallback(cause) == cause \in {"probe_ffmpeg_error", "render_ffmpeg_error"}

\* the renderer invocations of one call, in order, and its outcome: pad tells
\* whether the scale/pad filters precede the subtitles filter, style is the
\* layout the force_style string is built from (<<>>: no style)
AddSubtitlesRender(width, height, user_font_size, env) ==
    LET cause == PrimaryFailure(width, height, env)
        layout == calculate_subtitle_properties(Some(width), Some(height), user_font_size)
        primary == IF cause \in {"none", "render_ffmpeg_error"}
                   THEN << [ kind |-> "primary",
                             pad |-> render_is_vertical(width, height),
                             style |-> layout ] >>
                   ELSE <<>>
        fallback == [ kind |-> "fallback", pad |-> FALSE, style |-> <<>> ]
    IN  IF cause = "none"
        THEN [ ret |-> Some("output"), raised |-> None, cause |-> cause,
               renders |-> primary ]
        ELSE IF caught_by_fallback(cause)
        THEN IF env.fallback = "ok"
             THEN [ ret |-> Some("output"), raised |-> None, cause |-> cause,
                    renders |-> Append(primary, fallback) ]
             ELSE [ ret |-> None, raised |-> Some("fallback_error"), cause |-> cause,
                    renders |-> Append(primary, fallback) ]
        ELSE [ ret |-> None, raised |-> Some(cause), cause |-> cause,
               renders |-> primary ]

InitRender ==
    /\ PipelineIdle
    /\ hp = Off
    /\ rc = Off
    /\ tx = Off
    /\ sr = Off
    /\ ts = Off
    /\ rs = Off
    /\ nl = Off
    /\ tr = Off
    /\ ly = Off
    /\ \E d \in RnDims, u \in RnOverrides, env \in RnEnvs :
           rn = [ phase |-> "input", width |-> d[1], height |-> d[2],
                  user_font_size |-> u, env |-> env, out |-> <<>> ]

\* one run of the try block of _add_subtitles
RnRender ==
    /\ rn.phase = "input"
    /\ rn' = [rn EXCEPT
                 !.phase = "done",
                 !.out = <<AddSubtitlesRender(rn.width, rn.height,
                                              rn.user_font_size, rn.env)>>]
    /\ UNCHANGED <<pipelineVars, ts, rs, nl, tr, ly, sr, tx, rc, hp>>

NextRender == RnRender

SpecRender == InitRender /\ [][NextRender]_vars

\* the fallback renders among the invocations of the run
RnFallbacks ==
    { i \in 1..Len(rn.out[1].renders) : rn.out[1].renders[i].kind = "fallback" }

\* after a failed styled attempt: one fallback render, last, without style or
\* pad, and its outcome is the outcome of the stage
RnOneFallback ==
    /\ Cardinality(RnFallbacks) = 1
    /\ Len(rn.out[1].renders) \in RnFallbacks
    /\ rn.out[1].renders[Len(rn.out[1].renders)].style = <<>>
    /\ rn.env.fallback = "ok" => rn.out[1].ret = Some("output") /\ rn.out[1].raised = None
    /\ rn.env.fallback = "fail" => rn.out[1].ret = None /\ IsSome(rn.out[1].raised)

\* C25 as stated: whenever the styled attempt fails, for any cause, one
\* fallback render is made; its success is the stage's success and its
\* failure propagates
C25_FallbackForAnyCause ==
    rn.phase = "done" /\ rn.out[1].cause # "none" => RnOneFallback

\* C25 as amended: when the styled attempt fails with a renderer error (of the
\* dimension probe or of the render run), one fallback render is made, its
\* success is the stage's success and its failure propagates; a failure of
\* another kind (no video stream, typeface not found, height 0) propagates at
\* once with no fallback render
C25_FallbackForRendererErrors ==
    rn.phase = "done" =>
        /\ rn.out[1].cause \in {"probe_ffmpeg_error", "render_ffmpeg_error"} =>
              RnOneFallback
        /\ rn.out[1].cause \in {"no_video_stream", "font_not_found", "division_by_zero"} =>
              /\ RnFallbacks = {}
              /\ rn.out[1].ret = None
              /\ rn.out[1].raised = Some(rn.out[1].cause)
        /\ rn.out[1].cause = "none" => RnFallbacks = {}

\* the styled render failed with a renderer error and the fallback render
\* after it produced the output
C25_Witness ==
    /\ rn.phase = "done"
    /\ rn.out[1].cause = "render_ffmpeg_error"
    /\ Len(rn.out[1].renders) = 2
    /\ rn.out[1].renders[2].kind = "fallback"
    /\ rn.out[1].ret = Some("output")

\* C26: every styled render has the pad transform exactly when the layout its
\* style is built from is the vertical one (max lines 1)
C26_PadAgreesWithLayout ==
    rn.phase = "done" =>
        \A i \in 1..Len(rn.out[1].renders) :
            rn.out[1].renders[i].kind = "primary" =>
                (rn.out[1].renders[i].pad <=> rn.out[1].renders[i].style[2] = 1)

\* a 1080x1920 video has been rendered with the pad transform and the
\* one-line layout
C26_Witness ==
    /\ rn.phase = "done"
    /\ rn.width = 1080 /\ rn.height = 1920
    /\ rn.out[1].cause = "none"
    /\ rn.out[1].renders[1].pad
    /\ rn.out[1].renders[1].style[2] = 1

-----------------------------------------------------------------------------
(* core/video_service.py: _generate_srt and _format_srt_time on their own. *)
(* In this section a time is a whole number of ten-thousandths of a        *)
(* second (59.9996 s is 599996), and no time lies halfway between two      *)
(* milliseconds.                                                           *)

\* the most calls of _generate_srt in one behaviour
SrMaxCalls == 2

DigitCs == <<"0","1","2","3","4","5","6","7","8","9">>

\* the decimal digits of n, at least width of them: format(n, '0<width>d')
RECURSIVE ZeroPadded(_, _)
ZeroPadded(n, width) ==
    IF n < 10 /\ width <= 1 THEN <<DigitCs[n + 1]>>
    ELSE Append(ZeroPadded(n \div 10, width - 1), DigitCs[(n % 10) + 1])

\* f"{seconds:06.3f}".replace('.', ','): the seconds below 60 rounded to the
\* nearest millisecond, two digits at least before the separator
SecondsField(sec) ==
    LET ms == (sec + 5) \div 10 IN
    ZeroPadded(ms \div 1000, 2) \o <<",">> \o ZeroPadded(ms % 1000, 3)

\* _format_srt_time(seconds)
format_srt_time(t) ==
    LET hours == t \div 36000000
        minutes == (t % 36000000) \div 600000
        seconds == t % 600000
    IN  ZeroPadded(hours, 2) \o <<":">> \o ZeroPadded(minutes, 2) \o <<":">>
            \o SecondsField(seconds)

\* enumerate(subtitles, start=1): the number of the first entry
enumerate_start == 1

\* the entries _generate_srt writes, one write per segment:
\* f"{idx}\n{start} --> {end}\n{text}\n\n"
SrtEntries(subs) ==
    [ i \in 1..Len(subs) |->
        [ idx   |-> enumerate_start + i - 1,
          start |-> format_srt_time(subs[i].start),
          end   |-> format_srt_time(subs[i].end),
          text  |-> subs[i].text ] ]

\* 0, 0.5, 2, 4, 59.9994, 59.9996, 60, 3599.9996, 3600 and 3661.001 seconds
SrTimes ==
    { 0, 5000, 20000, 40000, 599994, 599996, 600000, 35999996, 36000000, 36610010 }

SrSegments == { Seg(a, b, Hola) : a \in SrTimes, b \in { c \in SrTimes : c > 0 } }

SrInputs ==
    { <<>> } \cup { <<x>> : x \in { g \in SrSegments : g.end > g.start } }
             \cup { <<x, y>> : x \in { g \in SrSegments : g.start = 0 /\ g.end > 0 },
                               y \in { g \in SrSegments : g.end > g.start } }

\* the values of uuid.uuid4()
SrUuids == { <<"u","1">>, <<"u","2">>, <<"u","3">>, <<"u","4">> }

\* uuid.uuid4(): 122 random bits, by the library's contract a value it has
\* not returned before; issued are the values it has returned
uuid4(issued) == SrUuids \ issued

\* the target_lang arguments
SrTargets == { EN, ES }

\* os.path.join(self.output_folder, f"{id}.srt")
SrtPath(id) == <<"o","u","t","p","u","t","s","/">> \o id \o <<".","s","r","t">>

\* _generate_srt naming the file after the target language
GenerateSrtNamedByLanguage(subs, target_lang, id, fs) ==
    LET path == SrtPath(target_lang) IN
    [ ret |-> path,
      fs  |-> [ p \in DOMAIN fs \cup {path} |->
                  IF p = path THEN SrtEntries(subs) ELSE fs[p] ] ]

\* _generate_srt(subtitles, target_lang) on the file system fs, id being the
\* value uuid4 returns to it: the path it returns and the file system it
\* leaves; open(srt_path, 'w') makes the file, or empties it, and the writes
\* of the loop append the entries
GenerateSrt(subs, target_lang, id, fs) ==
    LET path == SrtPath(id) IN
    [ ret |-> path,
      fs  |-> [ p \in DOMAIN fs \cup {path} |->
                  IF p = path THEN SrtEntries(subs) ELSE fs[p] ] ]

InitSrt ==
    /\ PipelineIdle
    /\ hp = Off
    /\ rc = Off
    /\ tx = Off
    /\ ts = Off
    /\ rs = Off
    /\ nl = Off
    /\ tr = Off
    /\ ly = Off
    /\ rn = Off
    /\ \E subs \in SrInputs :
           sr = [ phase |-> "run", subs |-> subs, issued |-> {}, fs |-> <<>>,
                  calls |-> <<>> ]

\* one call of _generate_srt with the segment list, for any target language:
\* calls records its arguments, the path it returned and the content of the
\* file at that path when it returned
SrGenerate ==
    /\ sr.phase = "run"
    /\ Len(sr.calls) < SrMaxCalls
    /\ \E target_lang \in SrTargets, id \in uuid4(sr.issued) :
           LET r == GenerateSrt(sr.subs, target_lang, id, sr.fs) IN
           sr' = [sr EXCEPT !.issued = @ \cup {id},
                            !.fs = r.fs,
                            !.calls = Append(@, [ target_lang |-> target_lang,
                                                  path |-> r.ret,
                                                  content |-> r.fs[r.ret] ])]
    /\ UNCHANGED <<pipelineVars, ts, rs, nl, tr, ly, rn, tx, rc, hp>>

NextSrt == SrGenerate

SpecSrt == InitSrt /\ [][NextSrt]_vars

DigitValue(c) == (CHOOSE i \in 1..10 : DigitCs[i] = c) - 1

IsDigit(c) == \E i \in 1..10 : DigitCs[i] = c

\* the number written in the digits s[a..b]
RECURSIVE FieldValue(_, _, _)
FieldValue(s, a, b) ==
    IF b < a THEN 0 ELSE 10 * FieldValue(s, a, b - 1) + DigitValue(s[b])

\* s has the form HH:MM:SS,mmm with minutes and seconds in 00..59
WellFormedTime(s) ==
    /\ Len(s) = 12
    /\ s[3] = ":" /\ s[6] = ":" /\ s[9] = ","
    /\ \A i \in {1, 2, 4, 5, 7, 8, 10, 11, 12} : IsDigit(s[i])
    /\ FieldValue(s, 4, 5) \in 0..59
    /\ FieldValue(s, 7, 8) \in 0..59
    /\ FieldValue(s, 10, 12) \in 0..999

\* C28: every file has one entry per segment, numbered 1..n in input order
\* with the segment's text, and every timestamp in it has the form
\* HH:MM:SS,mmm with minutes and seconds in 00..59 and milliseconds in 000..999
C28_NumberedEntriesWellFormedTimes ==
    sr.phase = "run" =>
        \A k \in 1..Len(sr.calls) :
            /\ Len(sr.calls[k].content) = Len(sr.subs)
            /\ \A i \in 1..Len(sr.subs) :
                  /\ sr.calls[k].content[i].idx = i
                  /\ sr.calls[k].content[i].text = sr.subs[i].text
                  /\ WellFormedTime(sr.calls[k].content[i].start)
                  /\ WellFormedTime(sr.calls[k].content[i].end)

-----------------------------------------------------------------------------
(* core/video_service.py: _translate_with_groq_fallback, and the loop body *)
(* of _process_subtitles for one segment, on their own                     *)

ApTexts == { Hola, Mundo, <<" ">> \o Hola, Mundo \o <<" ">>, <<>> }

\* a pair without direct model, a pair with one, the remote-only pair, one
\* language twice, and a pair spelled in upper case
ApPairs == { <<ES, FR>>, <<ES, EN>>, <<AR, EN>>, <<ES, ES>>, <<<<"E","S">>, <<"F","R">>>> }

InitApply ==
    /\ PipelineIdle
    /\ hp = Off
    /\ rc = Off
    /\ ts = Off
    /\ rs = Off
    /\ nl = Off
    /\ tr = Off
    /\ ly = Off
    /\ rn = Off
    /\ sr = Off
    /\ \E text \in ApTexts, p \in ApPairs, cl \in BOOLEAN, env \in TranslateEnvs :
           tx = [ phase |-> "input", text |-> text, source |-> p[1], target |-> p[2],
                  client |-> cl, env |-> env, out |-> <<>> ]

\* one call of _translate_with_groq_fallback(text, source, target)
ApRemote ==
    /\ tx.phase = "input"
    /\ tx' = [tx EXCEPT
                 !.phase = "remote",
                 !.out = <<translate_with_groq_fallback(tx.text, tx.client, tx.env)>>]
    /\ UNCHANGED <<pipelineVars, ts, rs, nl, tr, ly, rn, sr, rc, hp>>

\* one iteration of the loop of _process_subtitles for a segment with the text
ApSegment ==
    /\ tx.phase = "input"
    /\ LET sub == Seg(0, 2, tx.text)
           r == translate_text(tx.text, tx.source, tx.target, tx.client, tx.env)
       IN  tx' = [tx EXCEPT
                     !.phase = "segment",
                     !.out = <<[ calls |-> r.calls, raised |-> ~IsSome(r.ret),
                                 segment |-> ProcessedSegment(sub, r) ]>>]
    /\ UNCHANGED <<pipelineVars, ts, rs, nl, tr, ly, rn, sr, rc, hp>>

NextApply == ApRemote \/ ApSegment

SpecApply == InitApply /\ [][NextApply]_vars

\* C29: _translate_with_groq_fallback returns in every case: the input text
\* unchanged when the client cannot be initialised or the remote call fails,
\* the trimmed remote response otherwise
C29_RemoteFallbackNeverRaises ==
    tx.phase = "remote" =>
        /\ IsSome(tx.out[1].ret)
        /\ ((~tx.client /\ tx.env.key = "missing") \/ tx.env.groq = "fail") =>
              tx.out[1].ret = Some(tx.text)
        /\ ((tx.client \/ tx.env.key = "ok") /\ tx.env.groq = "ok") =>
              tx.out[1].ret = Some(Strip(RemoteContent(tx.text)))

\* translate_text resolved a pivot strategy for the segment; its application
\* fails before the first model call
ApPivotFailed ==
    /\ tx.phase = "segment"
    /\ tx.env.model = "pivot"
    /\ tx.out[1].calls # <<>>
    /\ tx.out[1].calls[1] = "resolve"
    /\ \A i \in 1..Len(tx.out[1].calls) : tx.out[1].calls[i] # "model"

\* C30: a segment whose pivot translation failed is in the output with its
\* original text
C30_PivotFailureKeepsOriginal ==
    ApPivotFailed => tx.out[1].segment.text = tx.text

-----------------------------------------------------------------------------
(* models/video.py and routes/video.py: the records of the store over the   *)
(* requests served for one video: process and regenerate streams, several   *)
(* in flight at a time and each pulled step by step, subtitle updates,      *)
(* status requests and deletions                                            *)

\* the streams in flight at a time
RcMaxRuns == 2

\* the messages of the errors a process run may end with; "" is the message
\* of the StopIteration of the stream pick
RcStageErrors == {"FFmpeg error", ""}

\* get_video_status: the JSON answer for a record, 404 when get_video finds
\* none
get_video_status(st, id, dbOk) ==
    IF ~IsSome(get_video(st, id, dbOk)) THEN [error |-> Some("Video not found")]
    ELSE
    LET video == st[id]
        status_data ==
            [ status |-> video.status,
              error |-> IF "error" \in DOMAIN video THEN Some(video.error) ELSE None,
              progress |-> video.progress,
              segments |-> video.segments ]
    IN  IF video.status = "completed" /\ "output_path" \in DOMAIN video
        THEN Merge(status_data, [output_path |-> video.output_path])
        ELSE status_data

\* a process stream the route has answered with, not pulled yet
NewProcessRun(path) ==
    [ kind |-> "process", pc |-> "p_new", path |-> Some(path), vid |-> None,
      subs |-> <<>>, msg |-> "" ]

\* a regenerate stream the route has answered with, not pulled yet
NewRegenerateRun(segs) ==
    [ kind |-> "regenerate", pc |-> "r_new", path |-> None, vid |-> None,
      subs |-> segs, msg |-> "" ]

\* the streams in flight with the stream r at its next position q
RunMoved(runs, r, q) == (runs (-) SetToBag({r})) (+) SetToBag({q})

\* the streams in flight with the stream r ended
RunEnded(runs, r) == runs (-) SetToBag({r})

InitRecord ==
    /\ PipelineIdle
    /\ hp = Off
    /\ ts = Off
    /\ rs = Off
    /\ nl = Off
    /\ tr = Off
    /\ ly = Off
    /\ rn = Off
    /\ sr = Off
    /\ tx = Off
    /\ \E n \in NameIds :
           rc = [ phase |-> "run",
                  store |-> [id \in VideoIds |->
                                NewVideo(id, IF id = TargetVideo THEN n ELSE "none")],
                  response |-> None,
                  runs |-> EmptyBag ]

\* GET /process (routes/video.py:144-181): 404 when get_video finds no
\* record, refused for a 'failed' record; otherwise the stream over the
\* stored path is the response, whatever other streams are in flight
RcProcessRequest ==
    /\ rc.phase = "run"
    /\ \E dbOk \in BOOLEAN :
           LET video == get_video(rc.store, TargetVideo, dbOk)
               accepted == IsSome(video) /\ Get(video).status # "failed"
           IN  /\ (accepted => BagCardinality(rc.runs) < RcMaxRuns)
               /\ rc' = [rc EXCEPT
                     !.response = None,
                     !.runs = IF accepted
                              THEN @ (+) SetToBag({NewProcessRun(
                                                     Get(video).original_path)})
                              ELSE @]
    /\ UNCHANGED <<pipelineVars, ts, rs, nl, tr, ly, rn, sr, tx, hp>>

\* the first pull of a process stream (lines 476-486): the id of the run is
\* derived from the path, then the stream rests at its first event
RcProcessInit ==
    /\ rc.phase = "run"
    /\ \E r \in BagToSet(rc.runs), dbLookup \in BOOLEAN :
           /\ r.pc = "p_new"
           /\ LET vid == validate_and_get_video_id(rc.store, Get(r.path), dbLookup) IN
              rc' = [rc EXCEPT !.runs = RunMoved(@, r, [r EXCEPT !.pc = "p_init",
                                                             !.vid = Some(vid)])]
    /\ UNCHANGED <<pipelineVars, ts, rs, nl, tr, ly, rn, sr, tx, hp>>

\* the next pull (lines 487-499): the record of the run's id is read; the run
\* takes its stored segments, or transcribes when there are none or the read
\* fails
RcProcessRead ==
    /\ rc.phase = "run"
    /\ \E r \in BagToSet(rc.runs), dbRead \in BOOLEAN :
           /\ r.pc = "p_init"
           /\ LET video == get_video(rc.store, Get(r.vid), dbRead)
                  existing == IF IsSome(video) THEN Get(video).segments ELSE <<>>
                  subs == IF use_existing_segments(existing) THEN existing
                          ELSE <<Seg(0, 2, Hola)>>
              IN  rc' = [rc EXCEPT !.runs = RunMoved(@, r, [r EXCEPT !.pc = "p_work",
                                                                 !.subs = subs])]
    /\ UNCHANGED <<pipelineVars, ts, rs, nl, tr, ly, rn, sr, tx, hp>>

\* the pull that renders (lines 549-560): 'completed' is written under the
\* run's id with the segments the run took, and the stream ends with the 100
\* event
RcProcessComplete ==
    /\ rc.phase = "run"
    /\ \E r \in BagToSet(rc.runs) :
           /\ r.pc = "p_work"
           /\ rc' = [rc EXCEPT
                 !.store = update_output_path(@, Get(r.vid), File("output"), r.subs),
                 !.runs = RunEnded(@, r)]
    /\ UNCHANGED <<pipelineVars, ts, rs, nl, tr, ly, rn, sr, tx, hp>>

\* a pull in which a stage raises, or the write of 'completed' does (lines
\* 566-572): the stream writes 'failed' under the run's id and rests at its
\* error event; when that write raises too, generate() writes under the id of
\* the request at once (routes/video.py:175-179) and the stream is over
RcProcessFail ==
    /\ rc.phase = "run"
    /\ \E r \in BagToSet(rc.runs),
          e \in RcStageErrors \cup {"record store error"},
          db1 \in BOOLEAN, db2 \in BOOLEAN :
           /\ r.pc \in {"p_init", "p_work"}
           /\ (e = "record store error" => r.pc = "p_work")
           /\ (db1 => db2)
           /\ rc' = IF db1
                    THEN [rc EXCEPT
                             !.store = update_status(@, Get(r.vid), "failed", e,
                                                     Some(-1)),
                             !.runs = RunMoved(@, r, [r EXCEPT !.pc = "p_error",
                                                            !.msg = ReraiseMessage(e)])]
                    ELSE [rc EXCEPT
                             !.store = IF db2
                                       THEN update_status(@, TargetVideo, "failed",
                                                          "record store error", None)
                                       ELSE @,
                             !.runs = RunEnded(@, r)]
    /\ UNCHANGED <<pipelineVars, ts, rs, nl, tr, ly, rn, sr, tx, hp>>

\* the pull after the error event (line 573, routes/video.py:175-179): the
\* stream re-raises and generate() writes 'failed' with the message under the
\* id of the request
RcProcessReraise ==
    /\ rc.phase = "run"
    /\ \E r \in BagToSet(rc.runs), db2 \in BOOLEAN :
           /\ r.pc = "p_error"
           /\ rc' = [rc EXCEPT
                 !.store = IF db2
                           THEN update_status(@, TargetVideo, "failed", r.msg, None)
                           ELSE @,
                 !.runs = RunEnded(@, r)]
    /\ UNCHANGED <<pipelineVars, ts, rs, nl, tr, ly, rn, sr, tx, hp>>

\* POST /update_subtitles: valid segments are stored and the record is set
\* to 'processing'; 404 when get_video finds no record
RcUpdateSubtitles ==
    /\ rc.phase = "run"
    /\ \E segs \in EditedInputs, dbOk \in BOOLEAN :
           rc' = [rc EXCEPT
                     !.response = None,
                     !.store = IF /\ validate_subtitle_segments(segs)
                                  /\ IsSome(get_video(rc.store, TargetVideo, dbOk))
                               THEN UpdateOne(@, TargetVideo,
                                        [segments |-> segs, status |-> "processing",
                                         progress |-> 0])
                               ELSE @]
    /\ UNCHANGED <<pipelineVars, ts, rs, nl, tr, ly, rn, sr, tx, hp>>

\* GET /regenerate (routes/video.py:344-378): the route reads the record and,
\* when it finds one, answers with the stream over the segments of the
\* request; otherwise with the one event 'Video not found'
RcRegenerateRequest ==
    /\ rc.phase = "run"
    /\ \E segs \in RegenerateInputs, dbOk \in BOOLEAN :
           LET found == IsSome(get_video(rc.store, TargetVideo, dbOk)) IN
           /\ (found => BagCardinality(rc.runs) < RcMaxRuns)
           /\ rc' = [rc EXCEPT
                 !.response = None,
                 !.runs = IF found THEN @ (+) SetToBag({NewRegenerateRun(segs)})
                          ELSE @]
    /\ UNCHANGED <<pipelineVars, ts, rs, nl, tr, ly, rn, sr, tx, hp>>

\* whether _burn_subtitles returns a path, over all the answers of ffprobe,
\* the font lookup, the renderer and the file system
RcBurnOutcomes == { IsSome(burn_subtitles(env).ret) : env \in RenderEnvs }

\* the first pull of a regenerate stream (routes/video.py:381-385): the
\* stream rests at its 30 event
RcRegenerateInit ==
    /\ rc.phase = "run"
    /\ \E r \in BagToSet(rc.runs) :
           /\ r.pc = "r_new"
           /\ rc' = [rc EXCEPT !.runs = RunMoved(@, r, [r EXCEPT !.pc = "r30"])]
    /\ UNCHANGED <<pipelineVars, ts, rs, nl, tr, ly, rn, sr, tx, hp>>

\* the next pull (lines 386-389): _generate_srt, then the 60 event; when it
\* raises the stream ends with the error event (lines 411-420), which writes
\* nothing to the store
RcRegenerateSrt ==
    /\ rc.phase = "run"
    /\ \E r \in BagToSet(rc.runs) :
           /\ r.pc = "r30"
           /\ \E g \in { generate_srt(r.subs, env.srt) : env \in RenderEnvs } :
                  rc' = [rc EXCEPT !.runs =
                            IF g.ok THEN RunMoved(@, r, [r EXCEPT !.pc = "r60"])
                            ELSE RunEnded(@, r)]
    /\ UNCHANGED <<pipelineVars, ts, rs, nl, tr, ly, rn, sr, tx, hp>>

\* the next pull (lines 390-398): _burn_subtitles, then the 90 event, or the
\* error event when it raises
RcRegenerateBurn ==
    /\ rc.phase = "run"
    /\ \E r \in BagToSet(rc.runs), burned \in RcBurnOutcomes :
           /\ r.pc = "r60"
           /\ rc' = [rc EXCEPT !.runs =
                         IF burned THEN RunMoved(@, r, [r EXCEPT !.pc = "r90"])
                         ELSE RunEnded(@, r)]
    /\ UNCHANGED <<pipelineVars, ts, rs, nl, tr, ly, rn, sr, tx, hp>>

\* the next pull (lines 399-409): update_output_path under the id of the
\* request, then the 100 event, or the error event when the write raises; the
\* pull after either event ends the stream through the finally block, which
\* touches the subtitle file only
RcRegenerateUpdate ==
    /\ rc.phase = "run"
    /\ \E r \in BagToSet(rc.runs), dbOk \in BOOLEAN :
           /\ r.pc = "r90"
           /\ rc' = [rc EXCEPT
                 !.store = IF dbOk
                           THEN update_output_path(@, TargetVideo, File("output"),
                                                   r.subs)
                           ELSE @,
                 !.runs = RunEnded(@, r)]
    /\ UNCHANGED <<pipelineVars, ts, rs, nl, tr, ly, rn, sr, tx, hp>>

\* GET /status: the answer for the record as it is; response holds it until
\* the next request is served
RcStatus ==
    /\ rc.phase = "run"
    /\ \E dbOk \in BOOLEAN :
           rc' = [rc EXCEPT !.response =
                                Some(get_video_status(rc.store, TargetVideo, dbOk))]
    /\ UNCHANGED <<pipelineVars, ts, rs, nl, tr, ly, rn, sr, tx, hp>>

\* Video.delete_video (models/video.py:147-166) called for the video of the
\* requests
RcDeleteVideo ==
    /\ rc.phase = "run"
    /\ TargetVideo \in DOMAIN rc.store
    /\ rc' = [rc EXCEPT !.store = delete_video(@, TargetVideo)]
    /\ UNCHANGED <<pipelineVars, ts, rs, nl, tr, ly, rn, sr, tx, hp>>

NextRecord ==
    \/ RcProcessRequest
    \/ RcProcessInit
    \/ RcProcessRead
    \/ RcProcessComplete
    \/ RcProcessFail
    \/ RcProcessReraise
    \/ RcUpdateSubtitles
    \/ RcRegenerateRequest
    \/ RcRegenerateInit
    \/ RcRegenerateSrt
    \/ RcRegenerateBurn
    \/ RcRegenerateUpdate
    \/ RcStatus
    \/ RcDeleteVideo

SpecRecord == InitRecord /\ [][NextRecord]_vars

\* C37: a record whose status is 'completed' has no error message, and the
\* status endpoint reports none for it, whatever runs, updates and
\* regenerations came before
C37_CompletedHasNoError ==
    rc.phase = "run" =>
        /\ \A id \in DOMAIN rc.store :
               rc.store[id].status = "completed" => "error" \notin DOMAIN rc.store[id]
        /\ ( /\ IsSome(rc.response)
             /\ "status" \in DOMAIN Get(rc.response)
             /\ Get(rc.response).status = "completed" )
               => Get(rc.response).error = None

-----------------------------------------------------------------------------
(* The segments that are rendered and stored, checked under Spec *)

\* C38: every segment handed to the render stage and every segment stored in
\* a record, by a process run, a subtitle update or a regeneration, has
\* end > start and a text that is not blank
C38_SegmentInvariantEverywhere ==
    /\ \A i \in DOMAIN rendered :
           \A j \in DOMAIN rendered[i] : WellFormed(rendered[i][j])
    /\ \A id \in DOMAIN store :
           \A j \in DOMAIN store[id].segments : WellFormed(store[id].segments[j])

-----------------------------------------------------------------------------
(* core/video_service.py: _process_subtitles over objects.  The segments    *)
(* are dicts with an identity: heap[r] is the dict with reference r, and a  *)
(* list holds references                                                    *)

\* the longest input list
HpMaxLen == 3

\* the dicts the caller holds before the call
HpHeaps ==
    { [i \in 1..n |-> SampleSegment(i)] : n \in 0..HpMaxLen }

\* the input lists over a heap: every dict once, in order, and for a heap of
\* two dicts the list that holds the first one twice
HpLists(heap) ==
    { [i \in 1..Len(heap) |-> i] }
        \cup (IF Len(heap) = 2 THEN { <<1, 1>> } ELSE {})

\* lines 426-447 with the translated text written into the input dict
AppendProcessedInPlace(heap, processed, sub, r) ==
    IF IsSome(r.ret)
    THEN [ heap |-> [heap EXCEPT ![sub].text = Get(r.ret)],
           processed |-> Append(processed, sub) ]
    ELSE [ heap |-> heap, processed |-> Append(processed, sub) ]

\* lines 426-447: a new dict is appended when translate_text returned, the
\* input dict itself when it raised
AppendProcessed(heap, processed, sub, r) ==
    IF IsSome(r.ret)
    THEN [ heap |-> Append(heap, [start |-> heap[sub].start, end |-> heap[sub].end,
                                  text |-> Get(r.ret)]),
           processed |-> Append(processed, Len(heap) + 1) ]
    ELSE [ heap |-> heap, processed |-> Append(processed, sub) ]

InitReplace ==
    /\ PipelineIdle
    /\ ts = Off
    /\ rs = Off
    /\ nl = Off
    /\ tr = Off
    /\ ly = Off
    /\ rn = Off
    /\ sr = Off
    /\ tx = Off
    /\ rc = Off
    /\ \E heap \in HpHeaps, lp \in TsLanguagePairs, cl \in BOOLEAN :
           \E subs \in HpLists(heap) :
               hp = [ phase |-> "loop", heap |-> heap, subtitles |-> subs,
                      heap0 |-> heap, subtitles0 |-> subs,
                      source_lang |-> lp[1], target_lang |-> lp[2],
                      client |-> cl, idx |-> 0, processed |-> <<>>,
                      raisedAt |-> {}, result |-> <<>> ]

\* one iteration of 'for idx, sub in enumerate(subtitles, 1)'
HpIterate ==
    /\ hp.phase = "loop"
    /\ hp.idx < Len(hp.subtitles)
    /\ \E env \in TranslateEnvs :
           LET sub == hp.subtitles[hp.idx + 1]
               r == translate_text(hp.heap[sub].text, hp.source_lang,
                                   hp.target_lang, hp.client, env)
               a == AppendProcessed(hp.heap, hp.processed, sub, r)
           IN  hp' = [hp EXCEPT !.idx = @ + 1,
                                !.heap = a.heap,
                                !.processed = a.processed,
                                !.client = r.client,
                                !.raisedAt = IF IsSome(r.ret) THEN @
                                             ELSE @ \cup {hp.idx + 1}]
    /\ UNCHANGED <<pipelineVars, ts, rs, nl, tr, ly, rn, sr, tx, rc>>

\* the loop is exhausted: 'return processed'
HpReturn ==
    /\ hp.phase = "loop"
    /\ hp.idx >= Len(hp.subtitles)
    /\ hp' = [hp EXCEPT !.phase = "returned", !.result = hp.processed]
    /\ UNCHANGED <<pipelineVars, ts, rs, nl, tr, ly, rn, sr, tx, rc>>

NextReplace == HpIterate \/ HpReturn

SpecReplace == InitReplace /\ [][NextReplace]_vars

\* C39: at every point of _process_subtitles the input list holds the dicts
\* it held and every input dict has the content it had; the list returned has
\* one segment per input segment, with the start and the end of the input
\* segment at the same index, whether its translation returned or raised
C39_ReplacesNotMutates ==
    hp.phase \in {"loop", "returned"} =>
        /\ hp.subtitles = hp.subtitles0
        /\ \A r \in DOMAIN hp.heap0 : hp.heap[r] = hp.heap0[r]
        /\ hp.phase = "returned" =>
               /\ Len(hp.result) = Len(hp.subtitles0)
               /\ \A i \in DOMAIN hp.result :
                      /\ hp.heap[hp.result[i]].start = hp.heap0[hp.subtitles0[i]].start
                      /\ hp.heap[hp.result[i]].end = hp.heap0[hp.subtitles0[i]].end

\* a call returned three segments, the second one kept because its
\* translation raised and the others translated
C39_Witness ==
    /\ hp.phase = "returned"
    /\ Len(hp.result) = 3
    /\ hp.raisedAt = {2}
    /\ hp.result[2] = hp.subtitles0[2]
    /\ hp.heap[hp.result[1]].text # hp.heap0[hp.subtitles0[1]].text

=============================================================================
